---- MODULE Spec2Model ----
(***************************************************************************)
(* Name resolution and merging in religion-india.                          *)
(*                                                                         *)
(* Strings are sequences of one-character strings.  A similarity score is  *)
(* the exact rational <<numerator, denominator>> that difflib computes as  *)
(* 2.0 * matches / length; a threshold is a number of hundredths.          *)
(* A CSV file is the sequence of its data rows (the header line is left    *)
(* out; rows are unquoted, so a line and its re-joined fields are equal).  *)
(***************************************************************************)
EXTENDS Integers, Sequences, FiniteSets, TLC

VARIABLES
    prog,        \* which script runs: "bm", "fix", "rename", "dmatch", "recover",
                 \* "process", or "pure" for a call of one helper function
    fn,          \* the last call of a helper function: name, argument, result
    pc,          \* position of that script
    bm,          \* the last call of best_match: arguments and return value
    ap,          \* the last call of append_csv: src, dest before, dest after
    root,        \* fix: the directory tree, dir -> (file stem -> data rows)
    root0,       \* fix: the tree when fix() was called
    by_state,    \* fix: load_codes() result, state code -> <<norm, code, name>> rows
    threshold,   \* fix: --threshold, in hundredths
    apply,       \* fix: --apply
    dirs_left,   \* fix: state dirs root.iterdir() has not yielded yet
    state_dir,   \* fix: the dir of the running outer iteration
    files_left,  \* fix: files state_dir.glob() has not yielded yet
    actions,     \* fix: the planned operations
    ai,          \* fix: index of the next operation to perform
    codes,       \* rename: load_codes() result, [state_code_map, district_code_map]
    dry_run,     \* rename: --dry-run
    orig_dir,    \* rename: the name the running folder had when the run began
    resolved,    \* rename: folder name -> the state code found for it (None: unmatched)
    looked,      \* rename: the <<folder, stem>> whose district code was looked up
    ops,         \* rename: the renames performed or, in a dry run, announced
    present,     \* district-match: the folder index, a sequence of [name, stems]
    ref_df,      \* district-match: the rows of the master list
    mismatch_records,  \* district-match: the "missing district" records
    all_gn,      \* recover: the rows of the GeoNames dump
    missing,     \* recover: the rows of the missing list as read
    records,     \* district-match, recover: the records appended so far
    idx,         \* district-match, recover: position of iterrows()
    calls,       \* district-match, recover: per processed row, what was searched
    written,     \* district-match, recover: output file name -> rows written
    master,      \* process: the rows of the dates file
    auspi,       \* process: the labels appended so far
    hits,        \* process: Counter, <<state, district>> -> rows labelled 1
    total,       \* process: Counter, <<state, district>> -> rows with a file
    csv_rows,    \* scrapers: the data rows of the district's output CSV
    existing_rows,  \* resumable scraper: the row keys loaded and written so far
    done_years,  \* scrapers: the years found in the CSV when the run began
    last_date,   \* per-district scraper: the latest stored <<year, month, day>>
    yr,          \* scrapers: the year of the running iteration
    attempt,     \* resumable scraper: the attempt of the running fetch_year
    CONSECUTIVE_EMPTY,  \* per-district scraper: the global counter
    resp,        \* scrapers: the last HTTP response, [year, kind, cards]
    failed,      \* resumable scraper: the years reported as failed in this run
    exit_code,   \* scrapers: the exit status of the process, "" while it runs
    runs         \* scrapers: the number of runs of main() started

bmVars  == <<bm>>
fixVars == <<ap, root, root0, by_state, threshold, apply, dirs_left, state_dir,
             files_left, actions, ai>>
renVars == <<codes, dry_run, orig_dir, resolved, looked, ops>>
auxVars == <<present, ref_df, mismatch_records, all_gn, missing, records, idx,
             calls, written>>
cdVars  == <<master, auspi, hits, total>>
scrVars == <<csv_rows, existing_rows, done_years, last_date, yr, attempt,
             CONSECUTIVE_EMPTY, resp, failed, exit_code, runs>>
vars    == <<prog, fn, pc, bm, ap, root, root0, by_state, threshold, apply, dirs_left,
             state_dir, files_left, actions, ai, codes, dry_run, orig_dir, resolved,
             looked, ops, present, ref_df, mismatch_records, all_gn, missing, records,
             idx, calls, written, master, auspi, hits, total, csv_rows,
             existing_rows, done_years, last_date, yr, attempt, CONSECUTIVE_EMPTY,
             resp, failed, exit_code, runs>>

-----------------------------------------------------------------------------
(* Bounds of the model *)
MaxPool  == 2      \* candidates in a pool given to best_match directly
MaxFiles == 3      \* CSV files in the populated state folder
MaxDirs  == 2      \* state folders under the root given to rename_everything
MaxRows  == 2      \* rows of the master list / of the missing list
MaxLen   == 3      \* characters of a string given to a helper function
MaxYears == 2      \* years the resumable scraper walks through in one run
MaxRuns  == 2      \* runs of a scraper on one output file
MaxScrapeYears == 10  \* years the per-district scraper walks through
MaxDataYears   == 2   \* years for which the site lists muhurat dates

-----------------------------------------------------------------------------
(* Characters and strings *)
UPPER  == <<"A","B","C","D","E","F","G","H","I","J","K","L","M",
            "N","O","P","Q","R","S","T","U","V","W","X","Y","Z">>
LOWER  == <<"a","b","c","d","e","f","g","h","i","j","k","l","m",
            "n","o","p","q","r","s","t","u","v","w","x","y","z">>
DIGITS == <<"0","1","2","3","4","5","6","7","8","9">>

Range(f) == {f[i] : i \in DOMAIN f}

Count(seq, x) == Cardinality({i \in DOMAIN seq : seq[i] = x})

None == <<"None">>

FnCall(name, arg, out) == [name |-> name, arg |-> arg, out |-> out]
NoFn == FnCall("", <<>>, <<>>)

\* str.lower() of one character; of the letters outside ASCII the model has "É"
lower_ch(c) ==
    IF \E i \in DOMAIN UPPER : UPPER[i] = c
    THEN LOWER[CHOOSE i \in DOMAIN UPPER : UPPER[i] = c]
    ELSE IF c = "É" THEN "é" ELSE c

lower(txt) == [i \in DOMAIN txt |-> lower_ch(txt[i])]

upper_ch(c) ==
    IF \E i \in DOMAIN LOWER : LOWER[i] = c
    THEN UPPER[CHOOSE i \in DOMAIN LOWER : LOWER[i] = c]
    ELSE c

\* str.title() of a single word
title(txt) == IF txt = <<>> THEN <<>> ELSE <<upper_ch(Head(txt))>> \o lower(Tail(txt))

IsNormChar(c) == c \in Range(LOWER) \cup Range(DIGITS)

\* norm keeping the capital letters instead of lower-casing them
norm_keeps_case(txt) ==
    SelectSeq(txt, LAMBDA c : c \in Range(LOWER) \cup Range(UPPER) \cup Range(DIGITS))

norm(txt) == SelectSeq(lower(txt), IsNormChar)

-----------------------------------------------------------------------------
(* difflib.SequenceMatcher(None, a, b).ratio(), no junk, strings < 200 chars *)

RECURSIVE MatchRun(_, _, _, _, _, _)
MatchRun(a, b, i, j, ahi, bhi) ==
    IF i < ahi /\ j < bhi /\ a[i] = b[j]
    THEN 1 + MatchRun(a, b, i + 1, j + 1, ahi, bhi)
    ELSE 0

\* the longest block a[i..i+k-1] = b[j..j+k-1] inside a[alo..ahi-1], b[blo..bhi-1];
\* of the longest ones the one starting earliest in a, then earliest in b
find_longest_match(a, b, alo, ahi, blo, bhi) ==
    LET cand == {<<i, j>> : i \in alo..(ahi - 1), j \in blo..(bhi - 1)}
        len(p) == MatchRun(a, b, p[1], p[2], ahi, bhi)
        best == CHOOSE p \in cand :
                  \A q \in cand :
                     \/ len(p) > len(q)
                     \/ /\ len(p) = len(q)
                        /\ \/ p[1] < q[1]
                           \/ p[1] = q[1] /\ p[2] <= q[2]
    IN  IF cand = {} THEN <<alo, blo, 0>> ELSE <<best[1], best[2], len(best)>>

RECURSIVE Matches(_, _, _, _, _, _)
Matches(a, b, alo, ahi, blo, bhi) ==
    IF alo >= ahi \/ blo >= bhi THEN 0
    ELSE LET m == find_longest_match(a, b, alo, ahi, blo, bhi)
         IN  IF m[3] = 0 THEN 0
             ELSE m[3] + Matches(a, b, alo, m[1], blo, m[2])
                       + Matches(a, b, m[1] + m[3], ahi, m[2] + m[3], bhi)

ratio(a, b) ==
    IF Len(a) + Len(b) = 0 THEN <<1, 1>>
    ELSE <<2 * Matches(a, b, 1, Len(a) + 1, 1, Len(b) + 1), Len(a) + Len(b)>>

\* comparisons of scores
Gt(s, t)      == s[1] * t[2] > t[1] * s[2]
Eq(s, t)      == s[1] * t[2] = t[1] * s[2]
GeThr(s, thr) == s[1] * 100 >= thr * s[2]
Zero          == <<0, 1>>

-----------------------------------------------------------------------------
(* missing-districts.py: configuration *)
DEFAULT_THRESHOLD == 80

S22 == <<"2","2">>
S29 == <<"2","9">>
S03 == <<"0","3">>
S17 == <<"1","7">>
S19 == <<"1","9">>
S27 == <<"2","7">>
S34 == <<"3","4">>

n_korea  == <<"k","o","r","e","a">>
n_korba  == <<"k","o","r","b","a">>
n_koria  == <<"k","o","r","i","a">>
n_mysore == <<"m","y","s","o","r","e">>
n_mysuru == <<"m","y","s","u","r","u">>
n_goa    == <<"g","o","a">>

SKIP_LIST ==
    { <<S03, <<"s","a","h","i","b","z","a","d","a","a","j","i","t","s","i","n","g","h",
              "n","a","g","a","r">>>>,
      <<S29, <<"b","a","n","g","a","l","o","r","e","u","r","b","a","n">>>>,
      <<S22, n_korea>> }

ALIAS_TO_CODE ==
    ( <<S17, <<"e","a","s","t","j","a","i","n","t","i","a","h","i","l","l","s">>>> :> <<"0","7">> ) @@
    ( <<S17, <<"w","e","s","t","j","a","i","n","t","i","a","h","i","l","l","s">>>> :> <<"0","7">> ) @@
    ( <<S29, n_mysore>> :> <<"2","0">> ) @@
    ( <<S29, n_mysuru>> :> <<"2","0">> ) @@
    ( <<S27, <<"r","a","i","g","a","d">>>> :> <<"2","4">> ) @@
    ( <<S19, <<"c","o","o","c","h","b","e","h","a","r">>>> :> <<"0","3">> ) @@
    ( <<S19, <<"h","o","w","r","a","h">>>> :> <<"1","6">> ) @@
    ( <<S19, <<"p","u","r","b","a","b","a","r","d","h","a","m","a","n">>>> :> <<"0","9">> ) @@
    ( <<S34, <<"k","a","r","a","i","k","a","l">>>> :> <<"0","2">> ) @@
    ( <<S34, <<"m","a","h","e">>>> :> <<"0","3">> )

-----------------------------------------------------------------------------
(* missing-districts.py: best_match *)

\* the loop body of best_match from candidate i on; <<best, best_score>> so far
RECURSIVE bm_loop(_, _, _, _, _)
bm_loop(name_norm, pool_norm, i, best, best_score) ==
    IF i > Len(pool_norm) THEN <<best, best_score>>
    ELSE LET sc == ratio(name_norm, pool_norm[i])
         IN  IF Gt(sc, best_score)
             THEN bm_loop(name_norm, pool_norm, i + 1, pool_norm[i], sc)
             ELSE bm_loop(name_norm, pool_norm, i + 1, best, best_score)

\* best_match accepting only above the threshold
best_match_strict(name_norm, pool_norm, thr) ==
    LET r == bm_loop(name_norm, pool_norm, 1, None, Zero)
    IN  IF ~GeThr(r[2], thr) \/ r[2][1] * 100 = thr * r[2][2] THEN <<None, r[2]>> ELSE r

\* best_match starting from the empty string instead of None
best_match_blank(name_norm, pool_norm, thr) ==
    LET r == bm_loop(name_norm, pool_norm, 1, <<>>, Zero)
    IN  IF GeThr(r[2], thr) THEN r ELSE <<None, r[2]>>

best_match(name_norm, pool_norm, thr) ==
    LET r == bm_loop(name_norm, pool_norm, 1, None, Zero)
    IN  IF GeThr(r[2], thr) THEN r ELSE <<None, r[2]>>

\* the record of one call
BmCall(q, pool, thr) ==
    LET r == best_match(q, pool, thr)
    IN  [query |-> q, pool |-> pool, threshold |-> thr, best |-> r[1], score |-> r[2]]

NoCall == [query |-> None, pool |-> <<>>, threshold |-> 0, best |-> None, score |-> Zero]

-----------------------------------------------------------------------------
(* missing-districts.py: append_csv *)

\* the data rows of dest after append_csv(src, dest); dest_rows is read once,
\* before the loop over the rows of src
append_csv(src, dest) ==
    LET dest_rows == Range(dest)
    IN  dest \o SelectSeq(src, LAMBDA line : line \notin dest_rows)

-----------------------------------------------------------------------------
(* missing-districts.py: load_codes *)

IsSpace(c) == c \in {" ", "\t"}

RECURSIVE lstrip(_)
lstrip(s) == IF s # <<>> /\ IsSpace(Head(s)) THEN lstrip(Tail(s)) ELSE s

RECURSIVE rstrip(_)
rstrip(s) ==
    IF s # <<>> /\ IsSpace(s[Len(s)]) THEN rstrip(SubSeq(s, 1, Len(s) - 1)) ELSE s

strip(s) == rstrip(lstrip(s))

isdigit(s) == s # <<>> /\ \A i \in DOMAIN s : s[i] \in Range(DIGITS)

DigitVal(c) == (CHOOSE i \in DOMAIN DIGITS : DIGITS[i] = c) - 1

RECURSIVE int(_)
int(s) == IF s = <<>> THEN 0
          ELSE 10 * int(SubSeq(s, 1, Len(s) - 1)) + DigitVal(s[Len(s)])

RECURSIVE str(_)
str(x) == IF x < 10 THEN <<DIGITS[x + 1]>>
          ELSE Append(str(x \div 10), DIGITS[(x % 10) + 1])

\* f"{x:02}"
fmt02(x) == IF x < 10 THEN <<"0">> \o str(x) ELSE str(x)

\* rows of the code book kept by the mask, codes re-rendered
CodeRowsKept(rows) ==
    LET keep(r) == isdigit(strip(r.state_code)) /\ isdigit(strip(r.district_code))
        conv(r) == [state_code    |-> fmt02(int(strip(r.state_code))),
                    district_code |-> fmt02(int(strip(r.district_code))),
                    district_name |-> r.district_name]
        kept    == SelectSeq(rows, keep)
    IN  [i \in DOMAIN kept |-> conv(kept[i])]

load_codes(rows) ==
    LET df == CodeRowsKept(rows)
        of(st) == SelectSeq(df, LAMBDA r : r.state_code = st)
    IN  [st \in {df[i].state_code : i \in DOMAIN df} |->
            [i \in DOMAIN of(st) |->
                <<norm(of(st)[i].district_name), of(st)[i].district_code,
                  of(st)[i].district_name>>]]

-----------------------------------------------------------------------------
(* missing-districts.py: fix *)

ALIAS == <<"a","l","i","a","s">>
One   == <<1, 1>>

\* re.fullmatch(r"\d{2}\.csv", csv_file.name)
IsTwoDigitName(stem) ==
    Len(stem) = 2 /\ stem[1] \in Range(DIGITS) /\ stem[2] \in Range(DIGITS)

pool_norm(s_code, bs) == [i \in DOMAIN bs[s_code] |-> bs[s_code][i][1]]

\* {t[0]: t[1:] for t in by_state[s_code]}[key]: a later row replaces an earlier one
pool_map(s_code, bs, key) ==
    LET rows == bs[s_code]
        last == CHOOSE i \in DOMAIN rows :
                   /\ rows[i][1] = key
                   /\ \A j \in DOMAIN rows : rows[j][1] = key => j <= i
    IN  <<rows[last][2], rows[last][3]>>

\* "not best" for a string or None
Falsy(x) == x = None \/ x = <<>>

NoRes == [kind |-> "numeric", d_code |-> None, census_name |-> None,
          score |-> Zero, call |-> NoCall]

\* d_code, census_name = pool_map[best]
Fuzzy(call, hit) ==
    [kind |-> "fuzzy", d_code |-> hit[1], census_name |-> hit[2],
     score |-> call.score, call |-> call]

\* resolve_name trying the fuzzy match before the alias
resolve_name_fuzzy_first(s_code, n, bs, call) ==
    IF <<s_code, n>> \in SKIP_LIST THEN [NoRes EXCEPT !.kind = "skip"]
    ELSE IF ~Falsy(call.best) THEN Fuzzy(call, pool_map(s_code, bs, call.best))
    ELSE IF <<s_code, n>> \in DOMAIN ALIAS_TO_CODE
         THEN [kind |-> "alias", d_code |-> ALIAS_TO_CODE[<<s_code, n>>],
               census_name |-> ALIAS, score |-> One, call |-> NoCall]
    ELSE [NoRes EXCEPT !.kind = "nomatch", !.score = call.score, !.call = call]

\* resolve_name without the manual skip
resolve_name_no_skip(s_code, n, bs, call) ==
    IF <<s_code, n>> \in DOMAIN ALIAS_TO_CODE
    THEN [kind |-> "alias", d_code |-> ALIAS_TO_CODE[<<s_code, n>>],
          census_name |-> ALIAS, score |-> One, call |-> NoCall]
    ELSE IF Falsy(call.best)
         THEN [NoRes EXCEPT !.kind = "nomatch", !.score = call.score, !.call = call]
    ELSE Fuzzy(call, pool_map(s_code, bs, call.best))

\* the manual skip, the manual alias and the fuzzy branch for the name n, given
\* what best_match(n, pool_norm, threshold) returns
resolve_name(s_code, n, bs, call) ==
    IF <<s_code, n>> \in SKIP_LIST THEN [NoRes EXCEPT !.kind = "skip"]
    ELSE IF <<s_code, n>> \in DOMAIN ALIAS_TO_CODE
         THEN [kind |-> "alias", d_code |-> ALIAS_TO_CODE[<<s_code, n>>],
               census_name |-> ALIAS, score |-> One, call |-> NoCall]
    ELSE IF Falsy(call.best)
         THEN [NoRes EXCEPT !.kind = "nomatch", !.score = call.score, !.call = call]
    ELSE Fuzzy(call, pool_map(s_code, bs, call.best))

\* the body of the loop over the files of one state folder, up to new_path
resolve(s_code, stem, bs, thr) ==
    IF IsTwoDigitName(stem) THEN NoRes
    ELSE resolve_name(s_code, norm(stem), bs,
                      BmCall(norm(stem), pool_norm(s_code, bs), thr))

NoFile == <<None, None>>
NoAppend == [src |-> <<>>, before |-> <<>>, after |-> <<>>, at |-> NoFile]

Exists(tree, path) == path[1] \in DOMAIN tree /\ path[2] \in DOMAIN tree[path[1]]

\* the tree without the file at path
Unlink(tree, path) ==
    [tree EXCEPT ![path[1]] =
        [f \in DOMAIN tree[path[1]] \ {path[2]} |-> tree[path[1]][f]]]

\* the tree with rows written at path
Put(tree, path, rows) ==
    [tree EXCEPT ![path[1]] =
        [f \in DOMAIN tree[path[1]] \cup {path[2]} |->
            IF f = path[2] THEN rows ELSE tree[path[1]][f]]]

\* for state_dir in [p for p in root.iterdir() if p.is_dir()]: the next folder
FixNextDir ==
    /\ prog = "fix" /\ pc = "plan" /\ dirs_left # {}
    /\ \E d \in dirs_left :
          /\ dirs_left' = dirs_left \ {d}
          /\ IF d \notin DOMAIN by_state \/ DOMAIN root[d] = {}
             THEN UNCHANGED <<pc, state_dir, files_left>>
             ELSE /\ state_dir' = d
                  /\ files_left' = DOMAIN root[d]
                  /\ pc' = "files"
    /\ UNCHANGED cdVars /\ UNCHANGED scrVars /\ UNCHANGED <<fn, prog, bm, ap, root, root0, by_state, threshold, apply, actions, ai>>
    /\ UNCHANGED renVars /\ UNCHANGED auxVars

\* actions.append((csv_file, new_path, score, census_name, merge_flag))
Planned(tree, dir, stem, r) ==
    [old |-> <<dir, stem>>, new |-> <<dir, r.d_code>>, score |-> r.score,
     label |-> r.census_name, merge |-> Exists(tree, <<dir, r.d_code>>)]

FixFileStep(stem, r) ==
    /\ files_left' = files_left \ {stem}
    /\ pc' = IF files_left \ {stem} = {} THEN "plan" ELSE "files"
    /\ bm' = IF r.kind \in {"fuzzy", "nomatch"} THEN r.call ELSE bm
    /\ actions' = IF r.kind \in {"alias", "fuzzy"}
                  THEN Append(actions, Planned(root, state_dir, stem, r))
                  ELSE actions

\* for csv_file in state_dir.glob("*.csv"): one file
FixFile ==
    /\ prog = "fix" /\ pc = "files"
    /\ \E stem \in files_left :
          FixFileStep(stem, resolve(state_dir, stem, by_state, threshold))
    /\ UNCHANGED cdVars /\ UNCHANGED scrVars /\ UNCHANGED <<fn, prog, ap, root, root0, by_state, threshold, apply, dirs_left,
                   state_dir, ai>>
    /\ UNCHANGED renVars /\ UNCHANGED auxVars

\* after the planning loop: nothing to do, dry run, or start performing
FixPlanned ==
    /\ prog = "fix" /\ pc = "plan" /\ dirs_left = {}
    /\ pc' = IF actions = <<>> \/ ~apply THEN "done" ELSE "apply"
    /\ UNCHANGED cdVars /\ UNCHANGED scrVars /\ UNCHANGED <<fn, prog, bm, ap, root, root0, by_state, threshold, apply, dirs_left,
                   state_dir, files_left, actions, ai>>
    /\ UNCHANGED renVars /\ UNCHANGED auxVars

\* one iteration of "for old, new, _, _, merge in actions"
FixPerform ==
    /\ prog = "fix" /\ pc = "apply"
    /\ LET a == actions[ai]
           next == IF ai = Len(actions) THEN "done" ELSE "apply"
       IN  IF ~Exists(root, a.old)
           THEN \* FileNotFoundError
                /\ pc' = "crashed"
                /\ UNCHANGED <<root, ap>>
           ELSE IF a.merge
           THEN LET before == IF Exists(root, a.new) THEN root[a.new[1]][a.new[2]]
                              ELSE <<>>
                    src    == root[a.old[1]][a.old[2]]
                    after  == append_csv(src, before)
                IN  /\ root' = Unlink(Put(root, a.new, after), a.old)
                    /\ ap' = [src |-> src, before |-> before, after |-> after,
                              at |-> a.new]
                    /\ pc' = next
           ELSE IF Exists(root, a.new)
           THEN \* Path.rename onto an existing file: replaced on POSIX,
                \* FileExistsError on Windows
                \/ /\ root' = Unlink(Put(root, a.new, root[a.old[1]][a.old[2]]), a.old)
                   /\ pc' = next
                   /\ UNCHANGED ap
                \/ /\ pc' = "crashed"
                   /\ UNCHANGED <<root, ap>>
           ELSE /\ root' = Unlink(Put(root, a.new, root[a.old[1]][a.old[2]]), a.old)
                /\ pc' = next
                /\ UNCHANGED ap
    /\ ai' = ai + 1
    /\ UNCHANGED cdVars /\ UNCHANGED scrVars /\ UNCHANGED <<fn, prog, bm, root0, by_state, threshold, apply, dirs_left,
                   state_dir, files_left, actions>>
    /\ UNCHANGED renVars /\ UNCHANGED auxVars

-----------------------------------------------------------------------------
(* rename_to_codes.py *)

ALIASES ==
    ( <<"a","n","d","a","m","a","n","a","n","d","n","i","c","o","b","a","r">>
        :> <<"3","5">> ) @@
    ( <<"d","a","d","r","a","a","n","d","n","a","g","a","r","h","a","v","e","l","i","a","n","d","d","a","m","a","n","a","n","d","d","i","u">>
        :> <<"2","6">> ) @@
    ( <<"d","e","l","h","i">>
        :> <<"0","7">> ) @@
    ( <<"n","a","t","i","o","n","a","l","c","a","p","i","t","a","l","t","e","r","r","i","t","o","r","y","o","f","d","e","l","h","i">>
        :> <<"0","7">> ) @@
    ( <<"l","a","k","s","h","a","d","w","e","e","p">>
        :> <<"3","1">> ) @@
    ( <<"l","a","d","a","k","h">>
        :> <<"3","7">> ) @@
    ( <<"a","n","d","h","r","a","p","r","a","d","e","s","h">>
        :> <<"2","8">> ) @@
    ( <<"a","n","d","r","a","p","r","a","d","e","s","h">>
        :> <<"2","8">> ) @@
    ( <<"g","u","j","a","r","a","t">>
        :> <<"2","4">> ) @@
    ( <<"j","a","m","m","u","a","n","d","k","a","s","h","m","i","r">>
        :> <<"0","1">> ) @@
    ( <<"u","t","t","a","r","a","k","h","a","n","d">>
        :> <<"0","5">> ) @@
    ( <<"u","t","t","r","a","k","h","a","n","d">>
        :> <<"0","5">> ) @@
    ( <<"p","u","d","u","c","h","e","r","r","y">>
        :> <<"3","4">> )

STATE_FUZZY == 80     \* best_fuzzy_match(key, candidates, threshold=0.8)

normalise(name) == SelectSeq(lower(name), IsNormChar)

best_fuzzy_match(key, candidates, thr) ==
    LET r == bm_loop(key, candidates, 1, None, Zero)
    IN  IF GeThr(r[2], thr) THEN r[1] ELSE None

\* state_code_map as the sequence of its items <<s_norm, s_code>> in insertion
\* order; setdefault keeps the first code of a name
RECURSIVE state_code_map(_, _, _)
state_code_map(df, i, acc) ==
    IF i > Len(df) THEN acc
    ELSE IF \E k \in DOMAIN acc : acc[k][1] = normalise(df[i].state_name)
         THEN state_code_map(df, i + 1, acc)
         ELSE state_code_map(df, i + 1,
                  Append(acc, <<normalise(df[i].state_name),
                                fmt02(int(df[i].state_code))>>))

\* district_code_map[(s_code, d_norm)] = d_code: the last row of a key stays
district_code_map(df) ==
    LET key(r) == <<fmt02(int(r.state_code)), normalise(r.district_name)>>
        last(k) == CHOOSE i \in DOMAIN df :
                      key(df[i]) = k /\ \A j \in DOMAIN df : key(df[j]) = k => j <= i
    IN  [k \in {key(df[i]) : i \in DOMAIN df} |-> fmt02(int(df[last(k)].district_code))]

\* astype(int) raises ValueError on a code that is blank or not a number
astype_raises(df) ==
    \E i \in DOMAIN df :
        ~isdigit(strip(df[i].state_code)) \/ ~isdigit(strip(df[i].district_code))

load_codes_rename(df) ==
    IF astype_raises(df)
    THEN [state_map |-> <<>>, district_map |-> <<>>, error |-> "ValueError"]
    ELSE [state_map |-> state_code_map(df, 1, <<>>),
          district_map |-> district_code_map(df), error |-> ""]

Keys(m) == [i \in DOMAIN m |-> m[i][1]]

\* state_map.get(match_key) if match_key else None
StateMapGet(m, key) ==
    IF Falsy(key) \/ ~\E i \in DOMAIN m : m[i][1] = key THEN None
    ELSE m[CHOOSE i \in DOMAIN m : m[i][1] = key][2]

\* lines 70-75: the alias layer, then the fuzzy match over the code-book states
state_code_of(name, m) ==
    IF normalise(name) \in DOMAIN ALIASES /\ ~Falsy(ALIASES[normalise(name)])
    THEN ALIASES[normalise(name)]
    ELSE StateMapGet(m, best_fuzzy_match(normalise(name), Keys(m), STATE_FUZZY))

\* the tree with folder d renamed to t
RenameDirIn(tree, d, t) ==
    [x \in (DOMAIN tree \ {d}) \cup {t} |-> IF x = t THEN tree[d] ELSE tree[x]]

Op(kind, dir, from, to) == [kind |-> kind, dir |-> dir, from |-> from, to |-> to]

\* the files target_state_dir.glob("*.csv") yields (none when the folder is not there)
Glob(tree, d) == IF d \in DOMAIN tree THEN DOMAIN tree[d] ELSE {}

\* the loop body with the rename done in a dry run too
RenameDirStep_always(d, sc) ==
    /\ dirs_left' = dirs_left \ {d}
    /\ resolved' = resolved @@ (d :> sc)
    /\ IF Falsy(sc) \/ (sc \in DOMAIN root /\ sc # d)
       THEN UNCHANGED <<root, ops, pc, state_dir, orig_dir, files_left>>
       ELSE /\ root' = IF sc # d THEN RenameDirIn(root, d, sc) ELSE root
            /\ ops' = IF sc # d THEN Append(ops, Op("state", d, d, sc)) ELSE ops
            /\ state_dir' = sc
            /\ orig_dir' = d
            /\ files_left' = Glob(root', sc)
            /\ pc' = IF files_left' = {} THEN "dirs" ELSE "rfiles"

\* the body of the loop over the state folders, for folder d with state code sc
RenameDirStep(d, sc) ==
    /\ dirs_left' = dirs_left \ {d}
    /\ resolved' = resolved @@ (d :> sc)
    /\ IF Falsy(sc) \/ (sc \in DOMAIN root /\ sc # d)
       THEN \* unmatched state, or the destination folder exists: continue
            UNCHANGED <<root, ops, pc, state_dir, orig_dir, files_left>>
       ELSE /\ root' = IF sc # d /\ ~dry_run THEN RenameDirIn(root, d, sc) ELSE root
            /\ ops' = IF sc # d THEN Append(ops, Op("state", d, d, sc)) ELSE ops
            /\ state_dir' = sc
            /\ orig_dir' = d
            /\ files_left' = Glob(root', sc)
            /\ pc' = IF files_left' = {} THEN "dirs" ELSE "rfiles"

RenameNextDir ==
    /\ prog = "rename" /\ pc = "dirs"
    /\ \E d \in dirs_left : RenameDirStep(d, state_code_of(d, codes.state_map))
    /\ UNCHANGED cdVars /\ UNCHANGED scrVars /\ UNCHANGED <<fn, prog, bm, ap, root0, by_state, threshold, apply, actions, ai,
                   codes, dry_run, looked>>
    /\ UNCHANGED auxVars

DistrictGet(m, key) == IF key \in DOMAIN m THEN m[key] ELSE None

\* the loop body without the test new_file.exists()
RenameFileStep_overwrite(stem, dc) ==
    /\ files_left' = files_left \ {stem}
    /\ pc' = IF files_left' = {} THEN "dirs" ELSE "rfiles"
    /\ looked' = looked \cup {<<orig_dir, stem>>}
    /\ IF Falsy(dc) \/ dc = stem
       THEN UNCHANGED <<root, ops>>
       ELSE /\ ops' = Append(ops, Op("dist", state_dir, stem, dc))
            /\ root' = IF dry_run THEN root
                       ELSE Unlink(Put(root, <<state_dir, dc>>, root[state_dir][stem]),
                                   <<state_dir, stem>>)

\* the body of the loop over the files of the folder, for a file and its code
RenameFileStep(stem, dc) ==
    /\ files_left' = files_left \ {stem}
    /\ pc' = IF files_left' = {} THEN "dirs" ELSE "rfiles"
    /\ looked' = looked \cup {<<orig_dir, stem>>}
    /\ IF Falsy(dc) \/ (dc \in DOMAIN root[state_dir] /\ dc # stem) \/ dc = stem
       THEN \* no code, destination file exists, or already numeric
            UNCHANGED <<root, ops>>
       ELSE /\ ops' = Append(ops, Op("dist", state_dir, stem, dc))
            /\ root' = IF dry_run THEN root
                       ELSE Unlink(Put(root, <<state_dir, dc>>, root[state_dir][stem]),
                                   <<state_dir, stem>>)

RenameFile ==
    /\ prog = "rename" /\ pc = "rfiles"
    /\ \E stem \in files_left :
          RenameFileStep(stem, DistrictGet(codes.district_map,
                                           <<state_dir, normalise(stem)>>))
    /\ UNCHANGED cdVars /\ UNCHANGED scrVars /\ UNCHANGED <<fn, prog, bm, ap, root0, by_state, threshold, apply, actions, ai,
                   codes, dry_run, dirs_left, state_dir, orig_dir, resolved>>
    /\ UNCHANGED auxVars

\* the summary after the loop
RenameSummary ==
    /\ prog = "rename" /\ pc = "dirs" /\ dirs_left = {}
    /\ pc' = "done"
    /\ UNCHANGED cdVars /\ UNCHANGED scrVars /\ UNCHANGED <<fn, prog, bm>> /\ UNCHANGED fixVars /\ UNCHANGED renVars
    /\ UNCHANGED auxVars

-----------------------------------------------------------------------------
(* district-match.py *)

STATE_FUZZY_THRESHOLD    == 80
DISTRICT_FUZZY_THRESHOLD == 70

ALIAS_MAP ==
    ( <<"A","&","N"," ","I","s","l","a","n","d">>
        :> <<"A","n","d","a","m","a","n"," ","a","n","d"," ","N","i","c","o","b","a","r">> ) @@
    ( <<"A","n","d","r","a"," ","P","r","a","d","e","s","h">>
        :> <<"A","n","d","h","r","a"," ","P","r","a","d","e","s","h">> ) @@
    ( <<"U","t","t","r","a","k","h","a","n","d">>
        :> <<"U","t","t","a","r","a","k","h","a","n","d">> )

\* str.replace("&", "and")
RECURSIVE replace_amp(_)
replace_amp(s) ==
    IF s = <<>> THEN <<>>
    ELSE (IF Head(s) = "&" THEN <<"a","n","d">> ELSE <<Head(s)>>) \o replace_amp(Tail(s))

\* str.split(): the maximal runs of non-whitespace characters
RECURSIVE split(_)
split(s) ==
    LET t == lstrip(s)
        k == IF \E i \in DOMAIN t : IsSpace(t[i])
             THEN (CHOOSE i \in DOMAIN t :
                      IsSpace(t[i]) /\ \A j \in 1..(i - 1) : ~IsSpace(t[j])) - 1
             ELSE Len(t)
    IN  IF t = <<>> THEN <<>>
        ELSE <<SubSeq(t, 1, k)>> \o split(SubSeq(t, k + 1, Len(t)))

\* sep.join(parts)
RECURSIVE join(_, _)
join(sep, parts) ==
    IF parts = <<>> THEN <<>>
    ELSE IF Len(parts) = 1 THEN parts[1]
    ELSE parts[1] \o sep \o join(sep, Tail(parts))

canonical(text) == join(<<" ">>, split(replace_amp(lower(text))))

similarity(a, b) == ratio(canonical(a), canonical(b))

\* max(names, key=lambda s: similarity(q, s), default=None): the first of the
\* names with the largest key
RECURSIVE max_loop(_, _, _, _)
max_loop(q, names, i, best) ==
    IF i > Len(names) THEN best
    ELSE IF Gt(similarity(q, names[i]), similarity(q, best))
         THEN max_loop(q, names, i + 1, names[i])
         ELSE max_loop(q, names, i + 1, best)

max_similarity(q, names) ==
    IF names = <<>> THEN None ELSE max_loop(q, names, 2, names[1])

PresentKeys(p) == [i \in DOMAIN p |-> p[i].name]

PresentGet(p, k) == p[CHOOSE i \in DOMAIN p : p[i].name = k].stems

\* f"{x:.2f}" of a ratio: hundredths, a tie (always an odd number of eighths,
\* which a float holds exactly) goes to the even digit
fmt2f(r) ==
    LET n == r[1] * 100
        q == n \div r[2]
        m == n % r[2]
        h == IF 2 * m > r[2] \/ (2 * m = r[2] /\ q % 2 = 1) THEN q + 1 ELSE q
    IN  str(h \div 100) \o <<".">> \o fmt02(h % 100)

csv(stem) == stem \o <<".","c","s","v">>

Record(st_raw, dist_raw, status, matched_file, sim) ==
    [state |-> st_raw, district_expected |-> dist_raw, status |-> status,
     matched_file |-> matched_file, similarity |-> sim]

\* lines 78-89: alias, exact folder name, then the most similar folder name
st_folder_of(st_raw, keys) ==
    LET alias == IF st_raw \in DOMAIN ALIAS_MAP THEN ALIAS_MAP[st_raw] ELSE None
        first == IF ~Falsy(alias) THEN alias
                 ELSE IF st_raw \in Range(keys) THEN st_raw ELSE None
        best_state == max_similarity(st_raw, keys)
    IN  IF ~Falsy(first) THEN first
        ELSE IF ~Falsy(best_state)
                /\ GeThr(similarity(st_raw, best_state), STATE_FUZZY_THRESHOLD)
             THEN best_state
             ELSE None

\* lines 108-112: the best candidate of the folder and its ratio
best_of(dist_raw, available) ==
    IF available # <<>>
    THEN LET best_dist == max_similarity(dist_raw, available)
         IN  <<best_dist, similarity(dist_raw, best_dist)>>
    ELSE <<<<>>, Zero>>

\* one iteration of the loop over ref_df, as the outcome of the row
Outcome(kind, st_folder, available, best, rec) ==
    [kind |-> kind, st_folder |-> st_folder, available |-> available,
     best_dist |-> best[1], best_ratio |-> best[2], rec |-> rec]

NoBest == <<None, Zero>>

\* check_district reporting every best candidate as a close match
check_district_lenient(st_raw, dist_raw, st_folder, available, best) ==
    IF dist_raw \in Range(available)
    THEN Outcome("exact", st_folder, available, NoBest, None)
    ELSE Outcome("close", st_folder, available, best,
                 Record(st_raw, dist_raw, "close match", csv(best[1]), fmt2f(best[2])))

check_district(st_raw, dist_raw, st_folder, available, best) ==
    IF dist_raw \in Range(available)
    THEN Outcome("exact", st_folder, available, NoBest, None)
    ELSE IF GeThr(best[2], DISTRICT_FUZZY_THRESHOLD)
    THEN Outcome("close", st_folder, available, best,
                 Record(st_raw, dist_raw, "close match", csv(best[1]), fmt2f(best[2])))
    ELSE Outcome("miss", st_folder, available, best,
                 Record(st_raw, dist_raw, "missing district",
                        IF ~Falsy(best[1]) THEN csv(best[1]) ELSE <<>>,
                        IF ~Falsy(best[1]) THEN fmt2f(best[2]) ELSE <<>>))

check_row(st_raw, dist_raw, p, st_folder) ==
    IF st_raw = <<>> \/ dist_raw = <<>>
    THEN Outcome("blank", None, <<>>, NoBest, None)
    ELSE IF Falsy(st_folder)
    THEN Outcome("no_state", None, <<>>, NoBest,
                 Record(st_raw, dist_raw, "missing state folder", <<>>, <<>>))
    ELSE IF st_folder \notin Range(PresentKeys(p))
    THEN Outcome("KeyError", st_folder, <<>>, NoBest, None)
    ELSE check_district(st_raw, dist_raw, st_folder, PresentGet(p, st_folder),
                        best_of(dist_raw, PresentGet(p, st_folder)))

DMatchStep(o) ==
    /\ calls' = Append(calls, o)
    /\ records' = IF o.kind \in {"no_state", "close", "miss"}
                  THEN Append(records, o.rec) ELSE records
    /\ mismatch_records' = IF o.kind = "miss"
                           THEN Append(mismatch_records, o.rec) ELSE mismatch_records
    /\ IF o.kind = "KeyError"
       THEN pc' = "crashed" /\ UNCHANGED idx
       ELSE idx' = idx + 1 /\ UNCHANGED pc

DMatchRow ==
    /\ prog = "dmatch" /\ pc = "rows" /\ idx <= Len(ref_df)
    /\ DMatchStep(check_row(strip(ref_df[idx].state), strip(ref_df[idx].district),
                            present,
                            st_folder_of(strip(ref_df[idx].state), PresentKeys(present))))
    /\ UNCHANGED cdVars /\ UNCHANGED scrVars /\ UNCHANGED <<fn, prog, bm, present, ref_df, all_gn, missing, written>>
    /\ UNCHANGED fixVars /\ UNCHANGED renVars

\* the code point order of the characters of the model's strings
ORD == <<"\t", " ", "&", ",", ".">> \o DIGITS \o UPPER \o LOWER

Ord(c) == CHOOSE i \in DOMAIN ORD : ORD[i] = c

RECURSIVE StrLt(_, _)
StrLt(a, b) ==
    IF b = <<>> THEN FALSE
    ELSE IF a = <<>> THEN TRUE
    ELSE IF Head(a) = Head(b) THEN StrLt(Tail(a), Tail(b))
    ELSE Ord(Head(a)) < Ord(Head(b))

KeyLt(r, t) ==
    \/ StrLt(r.state, t.state)
    \/ r.state = t.state /\ StrLt(r.district_expected, t.district_expected)

\* sort_values(["state", "district_expected"]): stable
RECURSIVE insert_sorted(_, _)
insert_sorted(sorted, r) ==
    IF sorted = <<>> THEN <<r>>
    ELSE IF KeyLt(r, sorted[Len(sorted)])
         THEN Append(insert_sorted(SubSeq(sorted, 1, Len(sorted) - 1), r),
                     sorted[Len(sorted)])
         ELSE Append(sorted, r)

RECURSIVE sort_values(_)
sort_values(rs) ==
    IF rs = <<>> THEN <<>>
    ELSE insert_sorted(sort_values(SubSeq(rs, 1, Len(rs) - 1)), rs[Len(rs)])

\* lines 137-143: a frame built from no records has no column "state"
DMatchWrite ==
    /\ prog = "dmatch" /\ pc = "rows" /\ idx > Len(ref_df)
    /\ IF records = <<>>
       THEN pc' = "crashed" /\ UNCHANGED written
       ELSE IF mismatch_records = <<>>
       THEN /\ pc' = "crashed"
            /\ written' = written @@ ("district_check_report.csv" :> sort_values(records))
       ELSE /\ pc' = "done"
            /\ written' = written
                          @@ ("district_check_report.csv" :> sort_values(records))
                          @@ ("mismatch-districts.csv" :> sort_values(mismatch_records))
    /\ UNCHANGED cdVars /\ UNCHANGED scrVars /\ UNCHANGED <<fn, prog, bm, present, ref_df, mismatch_records, all_gn, missing,
                   records, idx, calls>>
    /\ UNCHANGED fixVars /\ UNCHANGED renVars

-----------------------------------------------------------------------------
(* fetch-geo-ids.py *)

IsCommaOrSpace(c) == c \in {" ", ","}

\* text.strip(" ,")
RECURSIVE strip_comma_space(_)
strip_comma_space(s) ==
    IF s # <<>> /\ IsCommaOrSpace(Head(s)) THEN strip_comma_space(Tail(s))
    ELSE IF s # <<>> /\ IsCommaOrSpace(s[Len(s)])
         THEN strip_comma_space(SubSeq(s, 1, Len(s) - 1))
         ELSE s

\* re.sub(r"\s+", " ", cleaned): every run of whitespace becomes one space
RECURSIVE collapse_ws(_)
collapse_ws(s) ==
    IF s = <<>> THEN <<>>
    ELSE IF IsSpace(Head(s))
         THEN <<" ">> \o collapse_ws(lstrip(s))
         ELSE <<Head(s)>> \o collapse_ws(Tail(s))

geo_canonical(text) == lower(collapse_ws(strip_comma_space(text)))

-----------------------------------------------------------------------------
(* recover_missing_districts.py *)

SCORE_CUTOFF == 80

\* the frame as it is, equal rows kept
keep_duplicates(rows) == rows

\* drop_duplicates(['state_name','district_name']): the first of equal rows stays
drop_duplicates(rows) ==
    LET keep(i) == \A j \in 1..(i - 1) : rows[j] # rows[i]
        F[i \in 0..Len(rows)] ==
            IF i = 0 THEN <<>> ELSE IF keep(i) THEN Append(F[i - 1], rows[i]) ELSE F[i - 1]
    IN  F[Len(rows)]

\* str.split(','): the fields between the commas, empty ones included
RECURSIVE split_comma(_)
split_comma(s) ==
    IF ~\E i \in DOMAIN s : s[i] = ","
    THEN <<s>>
    ELSE LET k == CHOOSE i \in DOMAIN s : s[i] = "," /\ \A j \in 1..(i - 1) : s[j] # ","
         IN  <<SubSeq(s, 1, k - 1)>> \o split_comma(SubSeq(s, k + 1, Len(s)))

\* a dict as the sequence of its items <<key, value>> in insertion order
DictSet(d, k, v) ==
    IF \E i \in DOMAIN d : d[i][1] = k
    THEN [i \in DOMAIN d |-> IF d[i][1] = k THEN <<k, v>> ELSE d[i]]
    ELSE Append(d, <<k, v>>)

DictGet(d, k) ==
    IF \E i \in DOMAIN d : d[i][1] = k
    THEN d[CHOOSE i \in DOMAIN d : d[i][1] = k][2]
    ELSE None

RECURSIVE SetAll(_, _, _)
SetAll(d, ks, v) ==
    IF ks = <<>> THEN d ELSE SetAll(DictSet(d, Head(ks), v), Tail(ks), v)

NonEmpty(x) == x # <<>>

\* the name of a row and its non-empty alternate names
NamesOf(r) == <<r.name>> \o SelectSeq(split_comma(r.alternatenames), NonEmpty)

IsADM1(r) == r.feature_code = "ADM1"
IsADM2(r) == r.feature_code = "ADM2"

\* name and alternate names -> the field of the row; a later row replaces an earlier one
RECURSIVE lookup_of(_, _, _)
lookup_of(rows, field, acc) ==
    IF rows = <<>> THEN acc
    ELSE lookup_of(Tail(rows), field, SetAll(acc, NamesOf(Head(rows)), Head(rows)[field]))

state_lookup(gn) == lookup_of(SelectSeq(gn, IsADM1), "admin1", <<>>)

all_districts(gn) == SelectSeq(gn, IsADM2)

\* lines 60-62: the districts of the state, or all of them when st_code is falsy
pool_of(districts, st_code) ==
    IF ~Falsy(st_code)
    THEN SelectSeq(districts, LAMBDA r : r.admin1 = st_code)
    ELSE districts

dist_lookup(pool) == lookup_of(pool, "geonameid", <<>>)

\* fuzz.WRatio is library code: 100 for equal strings, 0 when a string is empty or
\* the two share no character, otherwise some score below 100
CharsOf(x) == Range(x)

WRatio(a, b) ==
    IF a = <<>> \/ b = <<>> THEN {0}
    ELSE IF a = b THEN {100}
    ELSE IF CharsOf(a) \cap CharsOf(b) = {} THEN {0}
    ELSE {50, 80, 95}

\* the scores a scorer can give the choices, one per choice
Scorings(q, choices) ==
    {sc \in [DOMAIN choices -> {0, 50, 80, 95, 100}] :
        \A i \in DOMAIN choices : sc[i] \in WRatio(q, choices[i])}

\* process.extractOne(q, choices, scorer, score_cutoff) or (None, 0, None):
\* the first choice with the highest score, when that score reaches the cut-off
extractOne(choices, sc, cutoff) ==
    LET ok == {i \in DOMAIN choices : sc[i] >= cutoff}
        top == {i \in ok : \A j \in ok : sc[j] <= sc[i]}
        i0 == CHOOSE i \in top : \A j \in top : i <= j
    IN  IF ok = {} THEN <<None, 0>> ELSE <<choices[i0], sc[i0]>>

RecoverStep(row, st, names, lookup, dm) ==
    /\ records' = Append(records,
          [state_name |-> row.state_name, matched_state |-> st[1],
           state_score |-> st[2], district_name |-> row.district_name,
           matched_district |-> dm[1], district_score |-> dm[2],
           geoname_id |-> DictGet(lookup, dm[1])])
    /\ calls' = Append(calls, [st_match |-> st[1], names |-> names])
    /\ idx' = idx + 1

RecoverDistrict(row, st, lookup) ==
    \E ds \in Scorings(row.district_name, Keys(lookup)) :
        RecoverStep(row, st, Keys(lookup), lookup,
                    extractOne(Keys(lookup), ds, SCORE_CUTOFF))

RecoverState(row, slookup) ==
    \E ss \in Scorings(row.state_name, Keys(slookup)) :
        RecoverDistrict(row, extractOne(Keys(slookup), ss, SCORE_CUTOFF),
            dist_lookup(pool_of(all_districts(all_gn),
                DictGet(slookup, extractOne(Keys(slookup), ss, SCORE_CUTOFF)[1]))))

RecoverRow ==
    /\ prog = "recover" /\ pc = "rows" /\ idx <= Len(drop_duplicates(missing))
    /\ RecoverState(drop_duplicates(missing)[idx], state_lookup(all_gn))
    /\ UNCHANGED cdVars /\ UNCHANGED scrVars /\ UNCHANGED <<fn, prog, pc, bm, present, ref_df, mismatch_records, all_gn, missing,
                   written>>
    /\ UNCHANGED fixVars /\ UNCHANGED renVars

\* lines 92-93
RecoverWrite ==
    /\ prog = "recover" /\ pc = "rows" /\ idx > Len(drop_duplicates(missing))
    /\ written' = written @@ ("missing-districts-recovered.csv" :> records)
    /\ pc' = "done"
    /\ UNCHANGED cdVars /\ UNCHANGED scrVars /\ UNCHANGED <<fn, prog, bm, present, ref_df, mismatch_records, all_gn, missing,
                   records, idx, calls>>
    /\ UNCHANGED fixVars /\ UNCHANGED renVars

-----------------------------------------------------------------------------
(* coding-districts.py *)

\* the keys of _MONTHS, in the order of their numbers
MONTHS ==
    << <<"j","a","n","u","a","r","y">>,
       <<"f","e","b","r","u","a","r","y">>,
       <<"m","a","r","c","h">>,
       <<"a","p","r","i","l">>,
       <<"m","a","y">>,
       <<"j","u","n","e">>,
       <<"j","u","l","y">>,
       <<"a","u","g","u","s","t">>,
       <<"s","e","p","t","e","m","b","e","r">>,
       <<"o","c","t","o","b","e","r">>,
       <<"n","o","v","e","m","b","e","r">>,
       <<"d","e","c","e","m","b","e","r">> >>

\* month_to_int(m) is not None: m is no blank cell (read as NaN), and a digit
\* string or a month name
IsMonth(m) == m # <<>> /\ (isdigit(strip(m)) \/ lower(strip(m)) \in Range(MONTHS))

\* month_to_int(m) for such an m
month_to_int(m) ==
    IF isdigit(strip(m)) THEN int(strip(m))
    ELSE CHOOSE i \in DOMAIN MONTHS : MONTHS[i] = lower(strip(m))

\* float(x) accepts digits with an optional fraction; anything else raises
IsFloat(t) ==
    \/ isdigit(t)
    \/ \E k \in DOMAIN t :
          /\ t[k] = "."
          /\ isdigit(SubSeq(t, 1, k - 1))
          /\ isdigit(SubSeq(t, k + 1, Len(t)))

\* int(float(x)) for an x that float accepts
int_float(t) ==
    IF isdigit(t) THEN int(t)
    ELSE int(SubSeq(t, 1, (CHOOSE k \in DOMAIN t : t[k] = ".") - 1))

\* f"{y:04d}"
fmt04(y) ==
    IF y < 10 THEN <<"0","0","0">> \o str(y)
    ELSE IF y < 100 THEN <<"0","0">> \o str(y)
    ELSE IF y < 1000 THEN <<"0">> \o str(y)
    ELSE str(y)

iso_date(y, m, d) ==
    IF ~IsFloat(strip(y)) \/ ~IsFloat(strip(d)) \/ ~IsMonth(m) THEN None
    ELSE IF month_to_int(m) \in 1..12 /\ int_float(strip(d)) \in 1..31
         THEN fmt04(int_float(strip(y))) \o <<"-">> \o fmt02(month_to_int(m))
              \o <<"-">> \o fmt02(int_float(strip(d)))
         ELSE None

pad(code) == IF isdigit(strip(code)) THEN fmt02(int(strip(code))) ELSE None

\* to_iso_series(df) for a frame with year, month and day columns
to_iso_series(df) == [i \in DOMAIN df |-> iso_date(df[i].year, df[i].month, df[i].day)]

\* f"{dt}": the text of a value inside an f-string
fstr(v) == IF v = None THEN <<"N","o","n","e">> ELSE v

\* load_district_dates(path): None when the file is absent, else its date set
load_district_dates(tree, path) ==
    IF ~Exists(tree, path) THEN None
    ELSE {d \in Range(to_iso_series(tree[path[1]][path[2]])) : d # None}

\* c[key] = n in place of c[key] += n
Incr_set(c, key, n) ==
    IF key \in DOMAIN c THEN [c EXCEPT ![key] = n] ELSE c @@ (key :> n)

\* c[key] += n on a Counter
Incr(c, key, n) ==
    IF key \in DOMAIN c THEN [c EXCEPT ![key] = @ + n] ELSE c @@ (key :> n)

\* one iteration of the loop of process(), for the codes st, dt and the date iso;
\* root / st raises TypeError when st is None; the flags 1 and 0 are written
\* as their text
ProcessStep(st, dt, iso) ==
    IF st = None
    THEN pc' = "crashed" /\ UNCHANGED <<auspi, missing, hits, total, idx>>
    ELSE /\ idx' = idx + 1
         /\ UNCHANGED pc
         /\ IF ~Exists(root, <<st, fstr(dt)>>)
            THEN /\ missing' = Incr(missing, <<st, fstr(dt)>>, 1)
                 /\ auspi' = Append(auspi, "missing")
                 /\ UNCHANGED <<hits, total>>
            ELSE /\ auspi' = Append(auspi, IF iso \in load_district_dates(root, <<st, fstr(dt)>>)
                                           THEN "1" ELSE "0")
                 /\ total' = Incr(total, <<st, dt>>, 1)
                 /\ hits' = Incr(hits, <<st, dt>>,
                                 IF iso \in load_district_dates(root, <<st, fstr(dt)>>)
                                 THEN 1 ELSE 0)
                 /\ UNCHANGED missing

ProcessRow ==
    /\ prog = "process" /\ pc = "rows" /\ idx <= Len(master)
    /\ ProcessStep(pad(master[idx].state), pad(master[idx].district),
                   to_iso_series(master)[idx])
    /\ UNCHANGED <<fn, prog, bm, master, ap, root, root0, by_state, threshold, apply,
                   dirs_left, state_dir, files_left, actions, ai>>
    /\ UNCHANGED renVars
    /\ UNCHANGED <<present, ref_df, mismatch_records, all_gn, records, calls, written>>
    /\ UNCHANGED scrVars

\* master["Auspicious_date"] = auspi; return master, missing
ProcessReturn ==
    /\ prog = "process" /\ pc = "rows" /\ idx > Len(master)
    /\ pc' = "done"
    /\ UNCHANGED <<fn, prog, bm>> /\ UNCHANGED fixVars /\ UNCHANGED renVars
    /\ UNCHANGED auxVars /\ UNCHANGED cdVars /\ UNCHANGED scrVars

\* sum(c.values())
RECURSIVE SumOver(_, _)
SumOver(c, keys) ==
    IF keys = {} THEN 0
    ELSE LET k == CHOOSE x \in keys : TRUE
         IN  c[k] + SumOver(c, keys \ {k})

sum_values(c) == SumOver(c, DOMAIN c)

\* sanity_check(df, missing_counter, strict): the labels are among '0', '1',
\* 'missing' (none is null) and total - pos - miss is not negative; the
\* comparison of the missing rows with the counter is informational
sanity_check(labels, missing_counter) ==
    /\ Range(labels) \subseteq {"0", "1", "missing"}
    /\ Len(labels) - Count(labels, "1") - Count(labels, "missing") >= 0

\* main after process(): the summary and the sanity check
SanityCheck ==
    /\ prog = "process" /\ pc = "done"
    /\ pc' = "checked"
    /\ fn' = FnCall("sanity_check", auspi, sanity_check(auspi, missing))
    /\ UNCHANGED <<prog, bm>> /\ UNCHANGED fixVars /\ UNCHANGED renVars
    /\ UNCHANGED auxVars /\ UNCHANGED cdVars /\ UNCHANGED scrVars

-----------------------------------------------------------------------------
(* web-scrape-new.py: the resumable scraper, for one of its TARGETS *)

NEW_START_YEAR == 1894
END_YEAR       == 2024
RETRIES        == 3

\* the last year of the walk: END_YEAR, or sooner in the model
LastYearFrom(start, n) == IF start + n - 1 < END_YEAR THEN start + n - 1 ELSE END_YEAR

\* a card of the page: the title's month, day and year, and whether the status
\* text mentions a marriage muhurat
Card(month, day, year, is_muhurat) ==
    [month |-> month, day |-> day, year |-> year, is_muhurat |-> is_muhurat]

Key(r) == <<r.year, r.month, r.day>>

\* parse_year_page: one record per card with a marriage muhurat
parse_year_page(cards) ==
    LET kept == SelectSeq(cards, LAMBDA c : c.is_muhurat)
    IN  [i \in DOMAIN kept |->
            [year |-> kept[i].year, month |-> title(kept[i].month), day |-> kept[i].day]]

\* load_existing(path): the row keys and the years of the CSV
load_existing(rows) ==
    [rows |-> {Key(rows[i]) : i \in DOMAIN rows}, years |-> {rows[i].year : i \in DOMAIN rows}]

\* records = [r for r in parse_year_page(html) if key not in existing_rows]
new_records(page, existing) ==
    SelectSeq(parse_year_page(page), LAMBDA r : Key(r) \notin existing)

Resp(year, kind, cards) == [year |-> year, kind |-> kind, cards |-> cards]

NoResp == Resp(0, "", <<>>)

ResumableFrame ==
    /\ UNCHANGED <<fn, prog, bm, last_date, CONSECUTIVE_EMPTY>>
    /\ UNCHANGED fixVars /\ UNCHANGED renVars /\ UNCHANGED auxVars /\ UNCHANGED cdVars

\* main, up to the loop over the years
ResumableLoad ==
    /\ prog = "resumable" /\ pc = "start"
    /\ existing_rows' = load_existing(csv_rows).rows
    /\ done_years' = load_existing(csv_rows).years
    /\ yr' = NEW_START_YEAR /\ attempt' = 1
    /\ pc' = "years"
    /\ UNCHANGED <<csv_rows, resp, failed, exit_code, runs>>
    /\ ResumableFrame

\* a year that is already in the file
ResumableSkip ==
    /\ prog = "resumable" /\ pc = "years"
    /\ yr <= LastYearFrom(NEW_START_YEAR, MaxYears) /\ yr \in done_years
    /\ yr' = yr + 1
    /\ UNCHANGED <<pc, csv_rows, existing_rows, done_years, attempt, resp, failed,
                   exit_code, runs>>
    /\ ResumableFrame

\* fetch_year without the test of the length of the body
ResumableStep_any_body(r) ==
    /\ resp' = r
    /\ IF r.kind \in {"page", "small"}
       THEN /\ csv_rows' = csv_rows \o new_records(r.cards, existing_rows)
            /\ existing_rows' = existing_rows \cup
                                {Key(x) : x \in Range(new_records(r.cards, existing_rows))}
            /\ yr' = yr + 1 /\ attempt' = 1
            /\ UNCHANGED failed
       ELSE IF attempt = RETRIES
       THEN /\ failed' = failed \cup {yr}
            /\ yr' = yr + 1 /\ attempt' = 1
            /\ UNCHANGED <<csv_rows, existing_rows>>
       ELSE /\ attempt' = attempt + 1
            /\ UNCHANGED <<csv_rows, existing_rows, yr, failed>>

\* one attempt of fetch_year for the year yr, answered by r, and what main does
\* when fetch_year returns or raises
ResumableStep(r) ==
    /\ resp' = r
    /\ IF r.kind = "page"
       THEN /\ csv_rows' = csv_rows \o new_records(r.cards, existing_rows)
            /\ existing_rows' = existing_rows \cup
                                {Key(x) : x \in Range(new_records(r.cards, existing_rows))}
            /\ yr' = yr + 1 /\ attempt' = 1
            /\ UNCHANGED failed
       ELSE IF attempt = RETRIES
       THEN /\ failed' = failed \cup {yr}
            /\ yr' = yr + 1 /\ attempt' = 1
            /\ UNCHANGED <<csv_rows, existing_rows>>
       ELSE /\ attempt' = attempt + 1
            /\ UNCHANGED <<csv_rows, existing_rows, yr, failed>>

\* what the site answers for a year: a page of at least 2000 characters with
\* its cards, a smaller page, or an error of the request
Answers(year, pages) ==
    {Resp(year, "page", p) : p \in pages} \cup {Resp(year, "small", <<>>), Resp(year, "error", <<>>)}

ResumableFinish ==
    /\ prog = "resumable" /\ pc = "years" /\ yr > LastYearFrom(NEW_START_YEAR, MaxYears)
    /\ pc' = "done" /\ exit_code' = "0"
    /\ UNCHANGED <<csv_rows, existing_rows, done_years, yr, attempt, resp, failed, runs>>
    /\ ResumableFrame

\* KeyboardInterrupt between two steps of the run
ResumableInterrupt ==
    /\ prog = "resumable" /\ pc = "years"
    /\ pc' = "done" /\ exit_code' = "0"
    /\ UNCHANGED <<csv_rows, existing_rows, done_years, yr, attempt, resp, failed, runs>>
    /\ ResumableFrame

\* the script is run again on the file it left
ResumableRerun ==
    /\ prog = "resumable" /\ pc = "done" /\ runs < MaxRuns
    /\ pc' = "start" /\ runs' = runs + 1
    /\ existing_rows' = {} /\ done_years' = {} /\ yr' = 0 /\ attempt' = 0
    /\ resp' = NoResp /\ failed' = {} /\ exit_code' = ""
    /\ UNCHANGED csv_rows
    /\ ResumableFrame

-----------------------------------------------------------------------------
(* web-scrape.py: the per-district scraper, for one district *)

START_YEAR            == 1892
MAX_CONSECUTIVE_EMPTY == 10

\* MONTH_INDEX[m], for a key m of the dict
MONTH_INDEX(m) == CHOOSE i \in DOMAIN MONTHS : MONTHS[i] = m

\* the comparison of two tuples of integers
TupleGt(a, b) ==
    \E k \in 1..Len(a) :
        /\ k <= Len(b) /\ a[k] > b[k]
        /\ \A j \in 1..(k - 1) : a[j] = b[j]

DateOf(r) == <<r.year, MONTH_INDEX(lower(r.month)), r.day>>

RECURSIVE latest(_, _)
\* get_district_resume_info: the loop of last_date over the rows
latest(rows, last) ==
    IF rows = <<>> THEN last
    ELSE latest(Tail(rows),
                IF Len(last) # 3 \/ TupleGt(DateOf(Head(rows)), last)
                THEN DateOf(Head(rows)) ELSE last)

get_district_resume_info(rows) ==
    [done_years |-> {rows[i].year : i \in DOMAIN rows}, last_date |-> latest(rows, None)]

HasLast == Len(last_date) = 3

\* start_year = last_date[0] if last_date else START_YEAR
start_year == IF HasLast THEN last_date[1] ELSE START_YEAR

\* parse_card over the cards: the cards of an auspicious marriage muhurat
parsed(cards) ==
    LET kept == SelectSeq(cards, LAMBDA c : c.is_muhurat)
    IN  [i \in DOMAIN kept |->
            [year |-> kept[i].year, month |-> kept[i].month, day |-> kept[i].day]]

\* the kinds of answer to a request: a page with cards; a page of less than
\* 1000 bytes; a page with no card that is a challenge or lacks the container;
\* a page with no card and the container; a timeout; an error whose text
\* holds one of the indicators; another error
Kinds == {"cards", "small", "challenge", "empty", "timeout", "blocked", "error"}

\* fetch_year with the counter set back by every page that is not small
counted_reset_on_page(kind, n) ==
    IF kind \in {"cards", "empty"} THEN 0
    ELSE IF kind \in {"small", "challenge", "timeout", "blocked"} THEN n + 1
    ELSE n

\* fetch_year: the counter after the answer
counted(kind, n) ==
    IF kind = "cards" THEN 0
    ELSE IF kind \in {"small", "challenge", "timeout", "blocked"} THEN n + 1
    ELSE n

\* fetch_year: the answers after which it tests the counter itself
exits_in_fetch(kind) == kind \in {"small", "timeout", "blocked"}

\* main without the filter of the starting year
fresh_records_all(r, last) == parsed(r.cards)

\* main: the records of the answer r that are kept, lines 299-307
fresh_records(r, last) ==
    IF r.kind # "cards" THEN <<>>
    ELSE IF Len(last) = 3 /\ r.year = last[1]
    THEN SelectSeq(parsed(r.cards),
                   LAMBDA x : TupleGt(<<MONTH_INDEX(lower(x.month)), x.day>>, <<last[2], last[3]>>))
    ELSE parsed(r.cards)

ScrapeFrame ==
    /\ UNCHANGED <<fn, prog, bm, existing_rows, attempt, failed>>
    /\ UNCHANGED fixVars /\ UNCHANGED renVars /\ UNCHANGED auxVars /\ UNCHANGED cdVars

\* main, up to the loop over the years
ScrapeLoad ==
    /\ prog = "scrape" /\ pc = "start"
    /\ done_years' = get_district_resume_info(csv_rows).done_years
    /\ last_date' = get_district_resume_info(csv_rows).last_date
    /\ yr' = IF csv_rows = <<>> THEN START_YEAR
             ELSE get_district_resume_info(csv_rows).last_date[1]
    /\ pc' = "years"
    /\ UNCHANGED <<csv_rows, CONSECUTIVE_EMPTY, resp, exit_code, runs>>
    /\ ScrapeFrame

\* the head of the loop: a completed year is skipped, another is requested
\* and fetch_year counts the answer r
ScrapeFetchStep(r) ==
    IF yr \in done_years /\ yr # start_year
    THEN /\ yr' = yr + 1
         /\ UNCHANGED <<pc, CONSECUTIVE_EMPTY, resp, exit_code>>
    ELSE /\ resp' = r
         /\ CONSECUTIVE_EMPTY' = counted(r.kind, CONSECUTIVE_EMPTY)
         /\ IF exits_in_fetch(r.kind) /\ counted(r.kind, CONSECUTIVE_EMPTY) >= MAX_CONSECUTIVE_EMPTY
            THEN pc' = "exited" /\ exit_code' = "2"
            ELSE pc' = "fetched" /\ UNCHANGED exit_code
         /\ UNCHANGED yr

\* main, after fetch_year returned
ScrapeHandle ==
    /\ prog = "scrape" /\ pc = "fetched"
    /\ IF fresh_records(resp, last_date) = <<>>
       THEN /\ IF CONSECUTIVE_EMPTY >= MAX_CONSECUTIVE_EMPTY
               THEN pc' = "exited" /\ exit_code' = "2" /\ UNCHANGED yr
               ELSE pc' = "years" /\ yr' = yr + 1 /\ UNCHANGED exit_code
            /\ UNCHANGED <<csv_rows, CONSECUTIVE_EMPTY>>
       ELSE /\ CONSECUTIVE_EMPTY' = 0
            /\ csv_rows' = csv_rows \o fresh_records(resp, last_date)
            /\ pc' = "years" /\ yr' = yr + 1 /\ UNCHANGED exit_code
    /\ UNCHANGED <<done_years, last_date, resp, runs>>
    /\ ScrapeFrame

\* the end of the loop and of main
ScrapeFinish ==
    /\ prog = "scrape" /\ pc = "years" /\ yr > LastYearFrom(START_YEAR, MaxScrapeYears)
    /\ pc' = "exited" /\ exit_code' = "0"
    /\ UNCHANGED <<csv_rows, done_years, last_date, yr, CONSECUTIVE_EMPTY, resp, runs>>
    /\ ScrapeFrame

\* the process is stopped from outside, between two years or while it writes
\* the records of a year: the file is line buffered
ScrapeInterrupt ==
    /\ prog = "scrape" /\ pc \in {"years", "fetched"}
    /\ \E n \in 0..Len(fresh_records(resp, last_date)) :
          /\ pc = "years" => n = 0
          /\ n > 0 => n < Len(fresh_records(resp, last_date))
          /\ csv_rows' = csv_rows \o SubSeq(fresh_records(resp, last_date), 1, n)
    /\ pc' = "exited" /\ exit_code' = "130"
    /\ UNCHANGED <<done_years, last_date, yr, CONSECUTIVE_EMPTY, resp, runs>>
    /\ ScrapeFrame

\* the script is started again on the file it left
ScrapeRerun ==
    /\ prog = "scrape" /\ pc = "exited" /\ runs < MaxRuns
    /\ pc' = "start" /\ runs' = runs + 1
    /\ done_years' = {} /\ last_date' = None /\ yr' = 0
    /\ CONSECUTIVE_EMPTY' = 0 /\ resp' = NoResp /\ exit_code' = ""
    /\ UNCHANGED csv_rows
    /\ ScrapeFrame

-----------------------------------------------------------------------------
(* merge_districts.py *)

District(state, district, geoname_id) ==
    [state |-> state, district |-> district, geoname_id |-> geoname_id]

\* key = (row['state'], row['district'], row['geoname_id'])
KeyOfRow(row) == <<row.state, row.district, row.geoname_id>>

\* lines 40-42 and 59-63: the row made of the stripped cells of a recovery row
new_row(row) ==
    District(strip(row.matched_state), strip(row.matched_district), strip(row.geoname_id))

Merged(rows, keys, added, empty, dup) ==
    [rows |-> rows, existing_districts |-> keys, added_count |-> added,
     skipped_empty |-> empty, skipped_duplicate |-> dup]

\* the body of the loop without existing_districts.add(key)
merge_row_forgetful(acc, row) ==
    IF new_row(row).geoname_id \in {<<>>, <<"0",".","0">>, <<"0">>}
    THEN [acc EXCEPT !.skipped_empty = @ + 1]
    ELSE IF KeyOfRow(new_row(row)) \in acc.existing_districts
    THEN [acc EXCEPT !.skipped_duplicate = @ + 1]
    ELSE [acc EXCEPT !.rows = Append(@, new_row(row)),
                     !.added_count = @ + 1]

\* the body of the loop over the recovery file
merge_row(acc, row) ==
    IF new_row(row).geoname_id \in {<<>>, <<"0",".","0">>, <<"0">>}
    THEN [acc EXCEPT !.skipped_empty = @ + 1]
    ELSE IF KeyOfRow(new_row(row)) \in acc.existing_districts
    THEN [acc EXCEPT !.skipped_duplicate = @ + 1]
    ELSE [acc EXCEPT !.rows = Append(@, new_row(row)),
                     !.existing_districts = @ \cup {KeyOfRow(new_row(row))},
                     !.added_count = @ + 1]

RECURSIVE merge_loop(_, _)
merge_loop(acc, recovery) ==
    IF recovery = <<>> THEN acc
    ELSE merge_loop(merge_row(acc, Head(recovery)), Tail(recovery))

\* merge_districts(): the rows written to the main file and the summary
merge_districts(existing, recovery) ==
    merge_loop(Merged(existing, {KeyOfRow(existing[i]) : i \in DOMAIN existing}, 0, 0, 0),
               recovery)

-----------------------------------------------------------------------------
(* Inputs *)

N_Korea  == <<"K","o","r","e","a">>
N_KOREA  == <<"K","O","R","E","A">>
N_Korba  == <<"K","o","r","b","a">>
N_Koria  == <<"K","o","r","i","a">>
N_Mysore == <<"M","y","s","o","r","e">>
N_Mysuru == <<"M","y","s","u","r","u">>
N_Goa    == <<"G","o","a">>
F10      == <<"1","0">>
F20      == <<"2","0">>

Row(sc, dc, name) == [state_code |-> sc, district_code |-> dc, district_name |-> name]

\* code books: plain; reordered, with an unpadded code, a name that an alias also
\* covers and a non-numeric row; two rows of one state with the same normalised name
CodeBooks ==
    { << Row(S22, F10, N_Korea), Row(S22, <<"1","1">>, N_Korba), Row(S29, F20, N_Mysuru) >>,
      << Row(S22, <<" ","7">>, N_Korba), Row(S22, F10, N_Korea),
         Row(S29, <<"2","1">>, N_Mysore), Row(<<"x">>, <<"1">>, N_Goa) >>,
      << Row(S22, F10, N_Korea), Row(S22, <<"1","2">>, N_KOREA), Row(S29, F20, N_Mysuru) >> }

\* every file holds the row 1, but for at most one, which holds one of these
FileContents == { <<1, 2>>, <<2, 2>> }

StemsOf(d) == IF d = S22 THEN {N_Korea, N_Koria, N_Mysore, F10}
              ELSE {N_Mysore, N_Mysuru, F20}

FixThresholds == {DEFAULT_THRESHOLD, 90}

Thresholds == {0, DEFAULT_THRESHOLD, 90, 100}
BmQueries  == {n_koria, n_korea, n_goa, <<>>}
BmNames    == {n_korea, n_korba, n_mysore, <<"x","y">>}
BmPools    == UNION {[1..n -> BmNames] : n \in 0..MaxPool}

D_Delhi    == <<"D","e","l","h","i">>
D_Dehli    == <<"D","e","h","l","i">>
D_Ladakh   == <<"L","a","d","a","k","h">>
D_Atlantis == <<"A","t","l","a","n","t","i","s">>
D_07       == <<"0","7">>
N_North    == <<"N","o","r","t","h">>
N_north    == <<"n","o","r","t","h">>
N_South    == <<"S","o","u","t","h">>
N_Leh      == <<"L","e","h">>
F01        == <<"0","1">>

RRow(sc, sn, dc, dn) ==
    [state_code |-> sc, state_name |-> sn, district_code |-> dc, district_name |-> dn]

\* code books of rename_everything: plain; with a state an alias also covers under
\* another code, and two rows of one state with the same normalised district name;
\* with a row whose district name is blank; with a row whose state code is not a
\* number
RenameBooks ==
    { << RRow(<<"7">>, D_Delhi, <<"1">>, N_North), RRow(<<"7">>, D_Delhi, <<"2">>, N_South),
         RRow(<<"3","0">>, N_Goa, <<"1">>, N_North) >>,
      << RRow(<<"3","8">>, D_Ladakh, <<"1">>, N_Leh), RRow(<<"7">>, D_Delhi, <<"1">>, N_North),
         RRow(<<"7">>, D_Delhi, <<"3">>, N_north), RRow(<<"3","0">>, N_Goa, <<"2">>, N_Leh) >>,
      << RRow(<<"7">>, D_Delhi, <<"4">>, <<>>), RRow(<<"7">>, D_Delhi, <<"1">>, N_North) >>,
      << RRow(<<"x">>, N_Goa, <<"1">>, N_North), RRow(<<"7">>, D_Delhi, <<"1">>, N_North) >> }

RenameDirs  == {D_Delhi, D_Dehli, D_Ladakh, D_Atlantis, N_Goa, D_07}
N_Dash      == <<"-">>
RenameStems == {N_North, N_north, N_Leh, F01, N_Dash}

ContentOf(stem) == IF stem = N_North THEN <<1>>
                   ELSE IF stem = N_north THEN <<2>>
                   ELSE IF stem = N_Leh THEN <<1, 2>> ELSE <<2, 2>>

AuxIdle ==
    /\ present = <<>> /\ ref_df = <<>> /\ mismatch_records = <<>> /\ all_gn = <<>>
    /\ missing = <<>> /\ records = <<>> /\ idx = 1 /\ calls = <<>> /\ written = <<>>

ScrIdle ==
    /\ csv_rows = <<>> /\ existing_rows = {} /\ done_years = {} /\ last_date = None
    /\ yr = 0 /\ attempt = 0 /\ CONSECUTIVE_EMPTY = 0 /\ resp = NoResp
    /\ failed = {} /\ exit_code = "" /\ runs = 0

CdIdle == master = <<>> /\ auspi = <<>> /\ hits = <<>> /\ total = <<>>

FixIdle ==
    /\ ap = NoAppend /\ root = <<>> /\ root0 = <<>> /\ by_state = <<>>
    /\ threshold = 0 /\ apply = FALSE /\ dirs_left = {} /\ state_dir = None
    /\ files_left = {} /\ actions = <<>> /\ ai = 1

RenIdle ==
    /\ codes = <<>> /\ dry_run = FALSE /\ orig_dir = None /\ resolved = <<>>
    /\ looked = {} /\ ops = <<>>

InitRename ==
    /\ prog = "rename" /\ bm = NoCall /\ fn = NoFn /\ CdIdle /\ ScrIdle /\ ap = NoAppend
    /\ by_state = <<>> /\ threshold = 0 /\ apply = FALSE /\ actions = <<>> /\ ai = 1
    /\ \E book \in RenameBooks : codes = load_codes_rename(book)
    /\ pc = IF codes.error = "" THEN "dirs" ELSE "crashed"
    /\ dry_run \in BOOLEAN
    /\ \E dirs \in SUBSET RenameDirs, stems \in SUBSET RenameStems :
          /\ Cardinality(dirs) <= MaxDirs
          /\ Cardinality(stems) <= MaxFiles
          /\ root = [d \in dirs |-> [f \in stems |-> ContentOf(f)]]
    /\ root0 = root
    /\ dirs_left = DOMAIN root
    /\ state_dir = None /\ files_left = {} /\ orig_dir = None
    /\ resolved = <<>> /\ looked = {} /\ ops = <<>>
    /\ AuxIdle

D_Goaa       == <<"G","o","a","a">>
D_Uttrakhand == <<"U","t","t","r","a","k","h","a","n","d">>
D_Uttarakhand == <<"U","t","t","a","r","a","k","h","a","n","d">>
D_uttrakhand == <<"u","t","t","r","a","k","h","a","n","d">>
D_Xyz        == <<"X","y","z">>
N_Sorth      == <<"S","o","r","t","h">>
N_NorthGoa   == <<"N","o","r","t","h"," ","G","o","a">>
N_Qqq        == <<"Q","q","q">>

Folder(name, stems) == [name |-> name, stems |-> stems]

\* folder indexes: two files in either order; an empty folder beside one file;
\* one empty folder; no folder at all
Presents ==
    { << Folder(N_Goa, <<N_North, N_South>>) >>,
      << Folder(N_Goa, <<N_South, N_North>>), Folder(D_Uttarakhand, <<N_Leh>>) >>,
      << Folder(N_Goa, <<>>), Folder(D_Delhi, <<N_NorthGoa>>) >>,
      << >> }

Ref(s, d) == [state |-> s, district |-> d]

\* master rows: exact; a tie between two files; padded; a folder found by
\* similarity; an alias; the alias in lower case; an unknown state; a blank
\* state; a blank district
RefRows ==
    { Ref(N_Goa, N_North), Ref(N_Goa, N_Sorth), Ref(N_Goa, <<"N","o","r","t","h"," ">>),
      Ref(D_Goaa, N_Qqq), Ref(D_Uttrakhand, N_Leh), Ref(D_uttrakhand, N_Leh),
      Ref(D_Xyz, N_North), Ref(<<" ">>, N_North), Ref(N_Goa, <<>>) }

SeqsUpTo(S, n) == UNION {[1..k -> S] : k \in 0..n}

InitDMatch ==
    /\ prog = "dmatch" /\ pc = "rows" /\ bm = NoCall /\ fn = NoFn /\ CdIdle /\ ScrIdle /\ FixIdle /\ RenIdle
    /\ present \in Presents
    /\ ref_df \in SeqsUpTo(RefRows, MaxRows)
    /\ mismatch_records = <<>> /\ all_gn = <<>> /\ missing = <<>>
    /\ records = <<>> /\ idx = 1 /\ calls = <<>> /\ written = <<>>

Gn(gid, name, alt, fc, admin1) ==
    [geonameid |-> gid, name |-> name, alternatenames |-> alt, feature_code |-> fc,
     admin1 |-> admin1]

\* GeoNames dumps: two states with a district of the same name in each; a state
\* with an alternate name and a district of another state listed first
Dumps ==
    { << Gn(<<"1">>, N_Goa, <<>>, "ADM1", <<"1","0">>),
         Gn(<<"2">>, D_Delhi, <<>>, "ADM1", <<"2","0">>),
         Gn(<<"3">>, N_North, <<>>, "ADM2", <<"2","0">>),
         Gn(<<"4">>, N_North, <<>>, "ADM2", <<"1","0">>),
         Gn(<<"5">>, N_Goa, <<>>, "PPL", <<"1","0">>) >>,
      << Gn(<<"3">>, N_Leh, <<",","S","o","r","t","h">>, "ADM2", <<"2","0">>),
         Gn(<<"1">>, N_Goa, <<"G","o","a","a",",">>, "ADM1", <<"1","0">>),
         Gn(<<"4">>, N_North, <<>>, "ADM2", <<"1","0">>) >> }

Miss(s, d) == [state_name |-> s, district_name |-> d]

MissingRows ==
    { Miss(N_Goa, N_North), Miss(N_Goa, N_Qqq), Miss(D_Goaa, N_Sorth),
      Miss(D_Goaa, N_North), Miss(D_Xyz, N_North), Miss(D_Xyz, N_Qqq) }

InitRecover ==
    /\ prog = "recover" /\ pc = "rows" /\ bm = NoCall /\ fn = NoFn /\ CdIdle /\ ScrIdle /\ FixIdle /\ RenIdle
    /\ all_gn \in Dumps
    /\ missing \in SeqsUpTo(MissingRows, MaxRows)
    /\ present = <<>> /\ ref_df = <<>> /\ mismatch_records = <<>>
    /\ records = <<>> /\ idx = 1 /\ calls = <<>> /\ written = <<>>

InitBm ==
    /\ prog = "bm" /\ pc = "call" /\ bm = NoCall /\ fn = NoFn /\ CdIdle /\ ScrIdle /\ FixIdle /\ RenIdle /\ AuxIdle

InitFix ==
    /\ prog = "fix" /\ pc = "plan" /\ bm = NoCall /\ fn = NoFn /\ CdIdle /\ ScrIdle /\ ap = NoAppend
    /\ \E book \in CodeBooks : by_state = load_codes(book)
    /\ threshold \in FixThresholds
    /\ apply \in BOOLEAN
    /\ \E d \in {S22, S29} :
       \E stems \in SUBSET StemsOf(d) :
          /\ Cardinality(stems) <= MaxFiles
          /\ \E other \in stems \cup {None}, rows \in FileContents :
                root = [x \in {d, N_Goa} |->
                           IF x = d THEN [f \in stems |-> IF f = other THEN rows ELSE <<1>>]
                           ELSE <<>>]
    /\ root0 = root
    /\ dirs_left = DOMAIN root
    /\ state_dir = None /\ files_left = {} /\ actions = <<>> /\ ai = 1
    /\ RenIdle /\ AuxIdle

\* a call of best_match on its own
BestMatch ==
    /\ prog = "bm" /\ pc = "call"
    /\ \E q \in BmQueries, pool \in BmPools, thr \in Thresholds :
          bm' = BmCall(q, pool, thr)
    /\ pc' = "done"
    /\ UNCHANGED cdVars /\ UNCHANGED scrVars /\ UNCHANGED <<fn, prog>> /\ UNCHANGED fixVars /\ UNCHANGED renVars
    /\ UNCHANGED auxVars

\* strings given to the helper functions
Alphabet == {"a", "B", "1", "&", ",", " ", "\t", "-", "É"}
Strings  == UNION {[1..k -> Alphabet] : k \in 0..MaxLen}

Y2024 == <<"2","0","2","4">>
F07   == <<"0","7">>

MRow(st, dt, y, m, d) == [state |-> st, district |-> dt, year |-> y, month |-> m, day |-> d]
DRow(y, m, d) == [year |-> y, month |-> m, day |-> d]

\* rows of the dates file: a date of the file 07/01.csv; the same with a month
\* name and padded codes; a month that does not exist; a district with no file;
\* a state with no folder; a district code and a state code that are no numbers
MasterRows ==
    { MRow(<<"7">>, <<"1">>, Y2024, <<"1">>, <<"5">>),
      MRow(F07, F01, <<"2","0","2","4",".","0">>, <<"J","a","n","u","a","r","y">>, <<"0","5">>),
      MRow(<<"7">>, <<"1">>, Y2024, <<"1","3">>, <<"5">>),
      MRow(<<"7">>, <<"2">>, Y2024, <<"1">>, <<"5">>),
      MRow(<<"8">>, <<"1">>, Y2024, <<"1">>, <<"5">>),
      MRow(<<"7">>, <<"x">>, Y2024, <<"1">>, <<"5">>),
      MRow(<<"x">>, <<"1">>, Y2024, <<"1">>, <<"5">>) }

\* trees: the file with the date; the file with another date and a row that is
\* no date; the file without rows beside a file None.csv
ProcessRoots ==
    { F07 :> (F01 :> << DRow(Y2024, F01, <<"5">>) >>),
      F07 :> (F01 :> << DRow(Y2024, <<"2">>, <<"3","0">>), DRow(<<>>, <<"1">>, <<"5">>) >>),
      F07 :> (F01 :> << >> @@ <<"N","o","n","e">> :> << DRow(Y2024, <<"1">>, <<"5">>) >>) }

InitProcess ==
    /\ prog = "process" /\ pc = "rows" /\ bm = NoCall /\ fn = NoFn
    /\ ap = NoAppend /\ root0 = <<>> /\ by_state = <<>>
    /\ threshold = 0 /\ apply = FALSE /\ dirs_left = {} /\ state_dir = None
    /\ files_left = {} /\ actions = <<>> /\ ai = 1
    /\ RenIdle
    /\ present = <<>> /\ ref_df = <<>> /\ mismatch_records = <<>> /\ all_gn = <<>>
    /\ records = <<>> /\ calls = <<>> /\ written = <<>>
    /\ root \in ProcessRoots
    /\ master \in SeqsUpTo(MasterRows, MaxRows)
    /\ idx = 1 /\ missing = <<>> /\ auspi = <<>> /\ hits = <<>> /\ total = <<>>
    /\ ScrIdle

M_January == <<"j","a","n","u","a","r","y">>
M_JANUARY == <<"J","A","N","U","A","R","Y">>
M_March   == <<"M","a","r","c","h">>

\* pages for a year: no card; one date; two dates, the later first; one date
\* on two cards; a card that is no marriage muhurat
PagesOf(year) ==
    { << >>,
      << Card(M_January, 5, year, TRUE) >>,
      << Card(M_March, 2, year, TRUE), Card(M_January, 5, year, TRUE) >>,
      << Card(M_January, 5, year, TRUE), Card(M_JANUARY, 5, year, TRUE) >>,
      << Card(M_March, 2, year, FALSE) >> }

\* fetch_year for the year yr: sess.get, raise_for_status and the length test
ResumableAttempt ==
    /\ prog = "resumable" /\ pc = "years"
    /\ yr <= LastYearFrom(NEW_START_YEAR, MaxYears) /\ yr \notin done_years
    /\ \E r \in Answers(yr, PagesOf(yr)) : ResumableStep(r)
    /\ UNCHANGED <<pc, done_years, exit_code, runs>>
    /\ ResumableFrame

M_march == <<"m","a","r","c","h">>

\* the site's pages for a year: the cards of the years with data, and a card
\* that is no auspicious marriage muhurat
CardsOf(year) ==
    (IF year < START_YEAR + MaxDataYears
     THEN { << Card(M_January, 5, year, TRUE) >>,
            << Card(M_march, 2, year, TRUE), Card(M_January, 5, year, TRUE) >> }
     ELSE {}) \cup { << Card(M_March, 2, year, FALSE) >> }

ScrapeAnswers(year) ==
    {Resp(year, "cards", c) : c \in CardsOf(year)} \cup
    {Resp(year, k, <<>>) : k \in Kinds \ {"cards"}}

\* one turn of the loop of main up to the return of fetch_year
ScrapeFetch ==
    /\ prog = "scrape" /\ pc = "years" /\ yr <= LastYearFrom(START_YEAR, MaxScrapeYears)
    /\ \E r \in ScrapeAnswers(yr) : ScrapeFetchStep(r)
    /\ UNCHANGED <<csv_rows, done_years, last_date, runs>>
    /\ ScrapeFrame

InitScrape ==
    /\ prog = "scrape" /\ pc = "start" /\ bm = NoCall /\ fn = NoFn /\ CdIdle
    /\ FixIdle /\ RenIdle /\ AuxIdle
    /\ csv_rows = <<>> /\ existing_rows = {} /\ done_years = {} /\ last_date = None
    /\ yr = 0 /\ attempt = 0 /\ CONSECUTIVE_EMPTY = 0 /\ resp = NoResp
    /\ failed = {} /\ exit_code = "" /\ runs = 1

InitResumable ==
    /\ prog = "resumable" /\ pc = "start" /\ bm = NoCall /\ fn = NoFn /\ CdIdle
    /\ FixIdle /\ RenIdle /\ AuxIdle
    /\ csv_rows = <<>> /\ existing_rows = {} /\ done_years = {} /\ last_date = None
    /\ yr = 0 /\ attempt = 0 /\ CONSECUTIVE_EMPTY = 0 /\ resp = NoResp
    /\ failed = {} /\ exit_code = "" /\ runs = 1

InitPure ==
    /\ prog = "pure" /\ pc = "call" /\ bm = NoCall /\ fn = NoFn /\ CdIdle /\ ScrIdle
    /\ FixIdle /\ RenIdle /\ AuxIdle

PureFrame ==
    /\ pc' = "done"
    /\ UNCHANGED cdVars /\ UNCHANGED scrVars
    /\ UNCHANGED <<prog, bm>> /\ UNCHANGED fixVars /\ UNCHANGED renVars
    /\ UNCHANGED auxVars

\* a call of norm (missing-districts.py) on its own
NormCall ==
    /\ prog = "pure" /\ pc = "call"
    /\ \E s \in Strings : fn' = FnCall("norm", s, norm(s))
    /\ PureFrame

\* a call of normalise (rename_to_codes.py) on its own
NormaliseCall ==
    /\ prog = "pure" /\ pc = "call"
    /\ \E s \in Strings : fn' = FnCall("normalise", s, normalise(s))
    /\ PureFrame

\* a call of canonical (district-match.py) on its own
CanonicalCall ==
    /\ prog = "pure" /\ pc = "call"
    /\ \E s \in Strings : fn' = FnCall("canonical", s, canonical(s))
    /\ PureFrame

\* a call of canonical (fetch-geo-ids.py) on its own
GeoCanonicalCall ==
    /\ prog = "pure" /\ pc = "call"
    /\ \E s \in Strings : fn' = FnCall("geo_canonical", s, geo_canonical(s))
    /\ PureFrame

\* a call of load_codes (missing-districts.py) on its own
LoadCodesCall ==
    /\ prog = "pure" /\ pc = "call"
    /\ \E book \in CodeBooks : fn' = FnCall("load_codes", book, load_codes(book))
    /\ PureFrame

\* a call of load_codes (rename_to_codes.py) on its own
LoadCodesRenameCall ==
    /\ prog = "pure" /\ pc = "call"
    /\ \E book \in RenameBooks :
          fn' = FnCall("load_codes_rename", book, load_codes_rename(book))
    /\ PureFrame

G_4 == <<"4">>

\* the main file: a district, and the same with a blank before its name
ExistingDistricts ==
    { District(N_Goa, N_North, G_4), District(N_Goa, <<" ">> \o N_North, G_4),
      District(N_Goa, N_Leh, <<"3">>) }

Rec(state, district, geoname_id) ==
    [matched_state |-> state, matched_district |-> district, geoname_id |-> geoname_id]

\* the recovery file: a district, the same with blanks around its cells, rows
\* with no usable geoname_id, and a district with no matched state
RecoveryRows ==
    { Rec(N_Goa, N_North, G_4), Rec(N_Goa, <<" ">> \o N_North, <<"4"," ">>),
      Rec(N_Goa, N_Leh, <<>>), Rec(N_Goa, N_Leh, <<" ","0">>),
      Rec(N_Goa, N_Leh, <<"0",".","0">>), Rec(<<>>, N_Leh, <<"3">>) }

\* a run of merge_districts.py
MergeCall ==
    /\ prog = "pure" /\ pc = "call"
    /\ \E existing \in SeqsUpTo(ExistingDistricts, MaxRows),
          recovery \in SeqsUpTo(RecoveryRows, MaxRows) :
          fn' = FnCall("merge_districts", <<existing, recovery>>,
                       merge_districts(existing, recovery))
    /\ PureFrame

Init == InitFix \/ InitBm \/ InitRename \/ InitDMatch \/ InitRecover \/ InitPure \/ InitProcess
    \/ InitResumable \/ InitScrape

Next ==
    \/ BestMatch
    \/ FixNextDir \/ FixFile \/ FixPlanned \/ FixPerform
    \/ RenameNextDir \/ RenameFile \/ RenameSummary
    \/ DMatchRow \/ DMatchWrite
    \/ RecoverRow \/ RecoverWrite
    \/ NormCall \/ NormaliseCall \/ CanonicalCall \/ GeoCanonicalCall
    \/ LoadCodesCall \/ LoadCodesRenameCall \/ MergeCall
    \/ ProcessRow \/ ProcessReturn \/ SanityCheck
    \/ ResumableLoad \/ ResumableSkip \/ ResumableAttempt \/ ResumableFinish
    \/ ResumableInterrupt \/ ResumableRerun
    \/ ScrapeLoad \/ ScrapeFetch \/ ScrapeHandle \/ ScrapeFinish
    \/ ScrapeInterrupt \/ ScrapeRerun

Spec == Init /\ [][Next]_vars

-----------------------------------------------------------------------------
(* Properties *)

Rows(tree, path) == IF Exists(tree, path) THEN Range(tree[path[1]][path[2]]) ELSE {}

Completed == prog = "fix" /\ pc = "done" /\ apply /\ actions # <<>>

Targets == {actions[i].new : i \in DOMAIN actions}

SourcesOf(t) == {actions[i].old : i \in {j \in DOMAIN actions : actions[j].new = t}}

\* C1: after fix(apply=True) completes, every target file holds the rows of all
\* the source files that resolved to it together with the rows it held before,
\* whether or not the target existed before the run.
C1_TargetHoldsUnion ==
    Completed =>
        \A t \in Targets :
            Rows(root, t) = Rows(root0, t) \cup UNION {Rows(root0, o) : o \in SourcesOf(t)}

\* C2: for two sources A and B that resolve to the same code, whichever of them
\* is performed first, the target ends with the rows of A, the rows of B and the
\* rows that were there before.
C2_OrderIndependent ==
    Completed =>
        \A i, j \in DOMAIN actions :
            (i < j /\ actions[i].new = actions[j].new) =>
                /\ Rows(root0, actions[i].old) \subseteq Rows(root, actions[i].new)
                /\ Rows(root0, actions[j].old) \subseteq Rows(root, actions[i].new)
                /\ Rows(root0, actions[i].new) \subseteq Rows(root, actions[i].new)

\* C3: append_csv keeps the rows of dest in their order, adds every distinct row
\* of src, and never appends a row that dest already holds at that moment, a row
\* repeated inside src included.
C3_AppendDedup ==
    ap # NoAppend =>
        /\ Len(ap.after) >= Len(ap.before)
        /\ SubSeq(ap.after, 1, Len(ap.before)) = ap.before
        /\ Range(ap.src) \subseteq Range(ap.after)
        /\ \A x \in Range(ap.src) :
              Count(ap.after, x) = IF x \in Range(ap.before) THEN Count(ap.before, x) ELSE 1

IsAliased(path) == <<path[1], norm(path[2])>> \in DOMAIN ALIAS_TO_CODE

AliasInFix(i) ==
    IsAliased(actions[i].old) =>
        /\ actions[i].new[2] = ALIAS_TO_CODE[<<actions[i].old[1], norm(actions[i].old[2])>>]
        /\ actions[i].score = One
        /\ actions[i].label = ALIAS

AliasInRename(d) ==
    normalise(d) \in DOMAIN ALIASES => resolved[d] = ALIASES[normalise(d)]

\* C6: an action that fix() plans for a file whose (state, norm(stem)) is an alias
\* key carries the alias's code with score 1.00, whatever the pool holds, and a
\* folder whose normalised name is an ALIASES key gets the alias's code in
\* rename_everything, whatever the code book's states are.
C6_AliasPrecedence ==
    /\ \A i \in DOMAIN actions : AliasInFix(i)
    /\ \A d \in DOMAIN resolved : AliasInRename(d)

\* an aliased file is planned while the pool of its state holds the very same
\* name under another code
C6_witness ==
    \E i \in DOMAIN actions :
        /\ IsAliased(actions[i].old)
        /\ \E k \in DOMAIN by_state[actions[i].old[1]] :
              /\ by_state[actions[i].old[1]][k][1] = norm(actions[i].old[2])
              /\ by_state[actions[i].old[1]][k][2] # actions[i].new[2]

Skipped == {p \in {<<d, f>> : d \in DOMAIN root0, f \in UNION {DOMAIN root0[x] : x \in DOMAIN root0}} :
               Exists(root0, p) /\ <<p[1], norm(p[2])>> \in SKIP_LIST}

\* C7: a file on the skip list is in no planned action, neither as source nor as
\* target, and keeps its place and its rows throughout.
C7_SkipListUntouched ==
    prog = "fix" =>
        \A p \in Skipped :
            /\ \A i \in DOMAIN actions : actions[i].old # p /\ actions[i].new # p
            /\ Exists(root, p)
            /\ root[p[1]][p[2]] = root0[p[1]][p[2]]

C7_witness == Completed /\ Skipped # {} /\ root # root0

-----------------------------------------------------------------------------
(* best_match *)

Called == bm # NoCall

Sims(q, pool) == {ratio(q, pool[i]) : i \in DOMAIN pool}

\* the maximum similarity over the pool (0.0 over no candidate)
MaxSim(q, pool) ==
    IF pool = <<>> THEN Zero
    ELSE CHOOSE s \in Sims(q, pool) : \A t \in Sims(q, pool) : ~Gt(t, s)

FirstAt(q, pool, m) ==
    CHOOSE i \in DOMAIN pool :
        /\ Eq(ratio(q, pool[i]), m)
        /\ \A j \in DOMAIN pool : Eq(ratio(q, pool[j]), m) => i <= j

BmAccepts(c, m) ==
    /\ c.best # None
    /\ c.best \in Range(c.pool)
    /\ Eq(ratio(c.query, c.best), m)
    /\ Eq(c.score, m)

BmRejects(c, m) == c.best = None /\ Eq(c.score, m)

BmInclusive(c, m) ==
    IF GeThr(m, c.threshold) THEN BmAccepts(c, m) ELSE BmRejects(c, m)

BmInclusivePositive(c, m) ==
    IF GeThr(m, c.threshold) /\ Gt(m, Zero) THEN BmAccepts(c, m) ELSE BmRejects(c, m)

\* C8 as stated: over a pool with candidates, best_match returns the best candidate
\* exactly when the maximum similarity is >= threshold, and otherwise None with
\* that maximum.
C8_Inclusive ==
    (Called /\ bm.pool # <<>>) => BmInclusive(bm, MaxSim(bm.query, bm.pool))

\* C8 amended: best_match returns the best candidate exactly when the maximum
\* similarity is >= threshold and greater than 0, and otherwise None with that
\* maximum.
C8_InclusivePositive ==
    (Called /\ bm.pool # <<>>) => BmInclusivePositive(bm, MaxSim(bm.query, bm.pool))

\* accepted with the score equal to the threshold
C8_witness ==
    /\ Called /\ bm.best # None
    /\ bm.score[1] * 100 = bm.threshold * bm.score[2]

-----------------------------------------------------------------------------
(* state before district *)

\* the rows of the master list that have been processed
Processed == IF prog = "dmatch" THEN DOMAIN calls ELSE {}

StateUnresolved(i) ==
    /\ strip(ref_df[i].state) # <<>> /\ strip(ref_df[i].district) # <<>>
    /\ Falsy(st_folder_of(strip(ref_df[i].state), PresentKeys(present)))

RenameSkipsDistricts ==
    \A d \in DOMAIN resolved :
        Falsy(resolved[d]) =>
            /\ \A l \in looked : l[1] # d
            /\ \A k \in DOMAIN ops : ops[k].dir # d
            /\ d \in DOMAIN root /\ root[d] = root0[d]

DMatchSkipsDistricts ==
    \A i \in Processed :
        StateUnresolved(i) =>
            /\ calls[i].kind = "no_state"
            /\ calls[i].best_dist = None
            /\ calls[i].rec.status = "missing state folder"
            /\ calls[i].rec.matched_file = <<>>

RecoverSkipsDistricts ==
    prog = "recover" =>
        \A i \in DOMAIN records :
            records[i].matched_state = None =>
                /\ calls[i].names = <<>>
                /\ records[i].matched_district = None
                /\ records[i].geoname_id = None

\* C4: a record whose state is not resolved gets no district lookup and ends
\* without a district match, in rename_everything, in the district-match pass
\* and in the recover_missing_districts pass.
C4_UnresolvedStateNoDistrict ==
    RenameSkipsDistricts /\ DMatchSkipsDistricts /\ RecoverSkipsDistricts

Adm1Of(name) == DictGet(state_lookup(all_gn), name)

RecoverInOwnState ==
    prog = "recover" =>
        \A i \in DOMAIN records :
            records[i].geoname_id # None =>
                \E k \in DOMAIN all_gn :
                    /\ IsADM2(all_gn[k])
                    /\ all_gn[k].geonameid = records[i].geoname_id
                    /\ all_gn[k].admin1 = Adm1Of(records[i].matched_state)

FixInOwnState ==
    /\ (prog = "fix" /\ Called) => bm.pool = pool_norm(state_dir, by_state)
    /\ \A i \in DOMAIN actions :
          ~IsAliased(actions[i].old) =>
              \E k \in DOMAIN by_state[actions[i].old[1]] :
                  /\ by_state[actions[i].old[1]][k][2] = actions[i].new[2]
                  /\ by_state[actions[i].old[1]][k][3] = actions[i].label

\* C5: a geoname_id written by recover_missing_districts belongs to a district
\* whose admin1 is the admin1 of the state matched for that row, and fix() matches
\* a file of folder S only against the code-book districts of S.
C5_DistrictInOwnState == RecoverInOwnState /\ FixInOwnState

-----------------------------------------------------------------------------
(* ties and empty pools *)

BmFirstOfBest ==
    (Called /\ bm.best # None) =>
        bm.best = bm.pool[FirstAt(bm.query, bm.pool, MaxSim(bm.query, bm.pool))]

\* the first row of the state whose normalised name is key
FirstRow(s_code, key) ==
    by_state[s_code][CHOOSE k \in DOMAIN by_state[s_code] :
                        /\ by_state[s_code][k][1] = key
                        /\ \A j \in DOMAIN by_state[s_code] :
                              by_state[s_code][j][1] = key => k <= j]

FixCodeOfFirst ==
    \A i \in DOMAIN actions :
        ~IsAliased(actions[i].old) =>
            LET s_code == actions[i].old[1]
                pool   == pool_norm(s_code, by_state)
                q      == norm(actions[i].old[2])
                first  == pool[FirstAt(q, pool, MaxSim(q, pool))]
            IN  actions[i].new[2] = FirstRow(s_code, first)[2]

SimsOf(q, names) == {similarity(q, names[i]) : i \in DOMAIN names}

FirstMostSimilar(q, names) ==
    names[CHOOSE i \in DOMAIN names :
             /\ \A t \in SimsOf(q, names) : ~Gt(t, similarity(q, names[i]))
             /\ \A j \in DOMAIN names :
                   Eq(similarity(q, names[j]), similarity(q, names[i])) => i <= j]

DMatchFirstOfBest ==
    \A i \in Processed :
        (calls[i].kind \in {"close", "miss"} /\ calls[i].available # <<>>) =>
            calls[i].best_dist =
                FirstMostSimilar(strip(ref_df[i].district), calls[i].available)

\* C9: among candidates of equal, maximal similarity the first of the pool is
\* selected, by best_match and by district-match, and the code fix() assigns is
\* the code of that first candidate, also when two code-book rows of the state
\* have the same normalised name.
C9_FirstCandidateWins == BmFirstOfBest /\ FixCodeOfFirst /\ DMatchFirstOfBest

BmEmptyPool ==
    (Called /\ bm.pool = <<>>) => bm.best = None /\ bm.score = Zero

DMatchEmptyFolder ==
    \A i \in Processed :
        (calls[i].kind \in {"close", "miss"} /\ calls[i].available = <<>>) =>
            /\ calls[i].best_dist = <<>>
            /\ calls[i].best_ratio = Zero
            /\ calls[i].rec.status = "missing district"
            /\ calls[i].rec \in Range(mismatch_records)

\* C10: best_match over an empty pool returns (None, 0.0) for every query and
\* threshold, and district-match over an empty state folder takes "" with ratio
\* 0.0 as the best candidate and reports the record as a missing district.
C10_EmptyPool == BmEmptyPool /\ DMatchEmptyFolder

\* best_match was called on an empty pool with a threshold of 0, which the score
\* 0.0 reaches
C10_witness == Called /\ bm.pool = <<>> /\ bm.threshold = 0 /\ bm.query # <<>>

\* a master row met an empty state folder
C10_witness_folder ==
    \E i \in Processed : calls[i].kind = "miss" /\ calls[i].available = <<>>

\* a folder named by an alias is resolved while the code book lists the same
\* state under another code
C6_witness_rename ==
    \E d \in DOMAIN resolved :
        /\ normalise(d) \in DOMAIN ALIASES
        /\ \E k \in DOMAIN codes.state_map :
              /\ codes.state_map[k][1] = normalise(d)
              /\ codes.state_map[k][2] # resolved[d]

-----------------------------------------------------------------------------
(* canonical forms *)

StrictChars == Range(LOWER) \cup Range(DIGITS)

\* C11: norm and normalise return a string of the characters a-z and 0-9 only,
\* for every string, the empty one included, and applying them to their own
\* result changes nothing.
C11_NormIdempotent ==
    /\ fn.name = "norm" => (Range(fn.out) \subseteq StrictChars /\ norm(fn.out) = fn.out)
    /\ fn.name = "normalise" =>
           (Range(fn.out) \subseteq StrictChars /\ normalise(fn.out) = fn.out)

\* norm was applied to a string with a capital letter, punctuation and a letter
\* outside ASCII, which it shortened
C11_witness ==
    /\ fn.name = "norm" /\ "B" \in Range(fn.arg) /\ "É" \in Range(fn.arg)
    /\ "&" \in Range(fn.arg) /\ fn.out = <<"b">>

\* C12: each loose canonicaliser, the one of district-match and the one of
\* fetch-geo-ids, returns a string that it leaves unchanged when applied again,
\* for every string over letters, '&', commas, spaces and tabs.
C12_CanonicalIdempotent ==
    /\ fn.name = "canonical" => canonical(fn.out) = fn.out
    /\ fn.name = "geo_canonical" => geo_canonical(fn.out) = fn.out

\* C13: the strict canonical form replaces '&' with the word 'and' before it
\* strips the other characters: norm and normalise give a name written with
\* '&' the strict form of the same name written with 'and'.
C13_AmpersandIsAnd ==
    /\ fn.name = "norm" => fn.out = norm(replace_amp(fn.arg))
    /\ fn.name = "normalise" => fn.out = normalise(replace_amp(fn.arg))

\* the master row i names a state that differs from an ALIAS_MAP key in letter
\* case or whitespace only, and is given the folder of that key
AliasInDMatch(i) ==
    \A k \in DOMAIN ALIAS_MAP :
        canonical(ref_df[i].state) = canonical(k) => calls[i].st_folder = ALIAS_MAP[k]

\* two planned files of one state with the same normalised stem, an alias key
SameAliasInFix(i, j) ==
    ( /\ IsAliased(actions[i].old)
      /\ actions[i].old[1] = actions[j].old[1]
      /\ norm(actions[i].old[2]) = norm(actions[j].old[2]) )
    => actions[i].new = actions[j].new /\ actions[j].label = ALIAS

\* two folders with the same normalised name, an alias key
SameAliasInRename(d, e) ==
    (normalise(d) \in DOMAIN ALIASES /\ normalise(d) = normalise(e))
    => resolved[d] = resolved[e]

\* C14: alias lookup is an exact match on the canonicalised key: a raw name that
\* differs from an alias key in letter case or whitespace only gets the alias's
\* result, in district-match (ALIAS_MAP), rename_everything (ALIASES) and fix()
\* (ALIAS_TO_CODE).
C14_AliasOnCanonicalKey ==
    /\ prog = "dmatch" => \A i \in DOMAIN calls : AliasInDMatch(i)
    /\ \A i, j \in DOMAIN actions : SameAliasInFix(i, j)
    /\ \A d, e \in DOMAIN resolved : SameAliasInRename(d, e)

\* the blank master rows of district-match get no lookup and no record
BlankRowSkipped(i) ==
    (strip(ref_df[i].state) = <<>> \/ strip(ref_df[i].district) = <<>>)
    => calls[i].kind = "blank" /\ calls[i].st_folder = None

\* C15: a name that is blank or canonicalises to the empty string is unresolved:
\* rename_everything renames no file or folder with such a name to a code, fix()
\* plans no action for such a file, and district-match looks nothing up for a
\* blank row, even when the code book holds an entry with a blank name.
C15_BlankUnresolved ==
    /\ \A i \in DOMAIN ops : normalise(ops[i].from) # <<>>
    /\ \A i \in DOMAIN actions : norm(actions[i].old[2]) # <<>>
    /\ prog = "dmatch" => \A i \in DOMAIN calls : BlankRowSkipped(i)

\* a planned action of fix(): an alias or a name of the pool itself has score
\* 1.0, and every other one a score at or above the threshold
VerdictInFix(i) ==
    LET a == actions[i]
    IN  /\ (a.label = ALIAS \/ norm(a.old[2]) \in Range(pool_norm(a.old[1], by_state)))
            => Eq(a.score, One)
        /\ GeThr(a.score, threshold)

\* a close match of district-match is at or above the district threshold
CloseInDMatch(i) ==
    calls[i].kind = "close" =>
        /\ GeThr(calls[i].best_ratio, DISTRICT_FUZZY_THRESHOLD)
        /\ calls[i].rec.matched_file = csv(calls[i].best_dist)
        /\ calls[i].rec.similarity = fmt2f(calls[i].best_ratio)

Unresolved(i) == calls[i].kind \in {"no_state", "miss"}

NoMatchedName(i) ==
    calls[i].rec.matched_file = <<>> /\ calls[i].rec.similarity = <<>>

\* a missing district names its closest guess, which is below the threshold,
\* and nothing when the folder has no guess to offer
ClosestGuess(i) ==
    IF Falsy(calls[i].best_dist) THEN NoMatchedName(i)
    ELSE /\ calls[i].best_dist \in Range(calls[i].available)
         /\ ~GeThr(calls[i].best_ratio, DISTRICT_FUZZY_THRESHOLD)
         /\ calls[i].rec.matched_file = csv(calls[i].best_dist)
         /\ calls[i].rec.similarity = fmt2f(calls[i].best_ratio)

\* C16: every outcome satisfies the verdict invariants: exact and aliased
\* outcomes have score 1.0, fuzzy-accepted ones a score at or above the threshold
\* in force, and an unresolved row of district-match (missing state folder,
\* missing district) carries no matched name and no score.
C16_VerdictInvariants ==
    /\ \A i \in DOMAIN actions : VerdictInFix(i)
    /\ prog = "dmatch" =>
          \A i \in DOMAIN calls : CloseInDMatch(i) /\ (Unresolved(i) => NoMatchedName(i))

\* C16, amended: as above, but only the missing-state-folder rows are blank; a
\* missing-district row carries its closest guess, whose similarity is below the
\* district threshold, and is blank only when there is no guess.
C16_VerdictInvariantsGuess ==
    /\ \A i \in DOMAIN actions : VerdictInFix(i)
    /\ prog = "dmatch" =>
          \A i \in DOMAIN calls :
              /\ CloseInDMatch(i)
              /\ calls[i].kind = "no_state" => NoMatchedName(i)
              /\ calls[i].kind = "miss" => ClosestGuess(i)

\* a close match and a missing district with a guess in one report
C16_witness ==
    /\ prog = "dmatch"
    /\ \E i, j \in DOMAIN calls :
          /\ calls[i].kind = "close"
          /\ calls[j].kind = "miss" /\ calls[j].rec.matched_file # <<>>

\* C17: processing one record never raises: every master row of district-match
\* ends with a verdict (skipped, exact, close match, missing district, missing
\* state folder) and the loop goes on to the next row, and no folder or file
\* stops rename_everything, also when an alias names a folder or code that is
\* not there.
C17_RecordNeverRaises ==
    /\ prog = "dmatch" =>
          /\ \A i \in DOMAIN calls : calls[i].kind # "KeyError"
          /\ pc = "rows" => idx = Len(calls) + 1
    /\ (prog = "rename" /\ codes.error = "") => pc # "crashed"

IsNumericRow(r) == isdigit(strip(r.state_code)) /\ isdigit(strip(r.district_code))

NumericRows(rows) == {rows[i] : i \in {j \in DOMAIN rows : IsNumericRow(rows[j])}}

StateOf(r) == fmt02(int(strip(r.state_code)))

\* the index of fix() holds the numeric rows of the book, and only them
FixIndexOf(rows, index) ==
    /\ DOMAIN index = {StateOf(r) : r \in NumericRows(rows)}
    /\ \A st \in DOMAIN index :
          Range(index[st]) =
              {<<norm(r.district_name), fmt02(int(strip(r.district_code))), r.district_name>> :
                  r \in {x \in NumericRows(rows) : StateOf(x) = st}}

\* the maps of rename_everything hold the numeric rows of the book, and only them
RenameIndexOf(rows, maps) ==
    /\ maps.error = ""
    /\ DOMAIN maps.district_map =
          {<<StateOf(r), normalise(r.district_name)>> : r \in NumericRows(rows)}
    /\ Range(Keys(maps.state_map)) = {normalise(r.state_name) : r \in NumericRows(rows)}

\* C18: loading the code book drops every row whose state_code or district_code
\* is blank or not a number and goes on with the others, in load_codes of
\* missing-districts and in load_codes of rename_to_codes: the index holds exactly
\* the rows with numeric codes.
C18_BadCodeRowsDropped ==
    /\ fn.name = "load_codes" => FixIndexOf(fn.arg, fn.out)
    /\ fn.name = "load_codes_rename" => RenameIndexOf(fn.arg, fn.out)
    /\ prog = "rename" => codes.error = ""

\* what rename_everything does with folder d when d is the first one visited
DirRenamedAlone(d) ==
    LET sc == state_code_of(d, codes.state_map)
    IN  ~Falsy(sc) /\ sc # d /\ sc \notin DOMAIN root0

DirRenamed(d) == \E i \in DOMAIN ops : ops[i].kind = "state" /\ ops[i].from = d

\* what it does with the file stem of folder d when that file is the first one
\* visited in the folder
FileRenamedAlone(d, stem) ==
    LET dc == DistrictGet(codes.district_map, <<resolved[d], normalise(stem)>>)
    IN  ~Falsy(dc) /\ dc # stem /\ dc \notin DOMAIN root0[d]

FileRenamed(d, stem) ==
    \E i \in DOMAIN ops :
        ops[i].kind = "dist" /\ ops[i].dir = resolved[d] /\ ops[i].from = stem

\* the plan of fix() for a file draws on the code book and the tree as they were
PlannedAlone(i) ==
    LET a == actions[i]
        r == resolve(a.old[1], a.old[2], by_state, threshold)
    IN  a.new = <<a.old[1], r.d_code>> /\ a.merge = Exists(root0, a.new)

\* C19: the outcome for a folder or a file does not depend on the order of the
\* visits: each is renamed exactly when it would be renamed if it were visited
\* first, also when two folders or two files resolve to the same code, and each
\* planned action of fix() is the one its file gets on its own.
C19_SiblingOrderIndependent ==
    /\ \A d \in DOMAIN resolved : DirRenamed(d) <=> DirRenamedAlone(d)
    /\ \A f \in looked : FileRenamed(f[1], f[2]) <=> FileRenamedAlone(f[1], f[2])
    /\ \A i \in DOMAIN actions : PlannedAlone(i)

\* the district file of a master row is there: both codes are numbers and the
\* tree holds <state_code>/<district_code>.csv
HasFile(r) ==
    /\ pad(r.state) # None /\ pad(r.district) # None
    /\ Exists(root, <<pad(r.state), pad(r.district)>>)

\* the ISO dates of the district file of a master row
DatesOf(r) ==
    {iso_date(x.year, x.month, x.day) :
        x \in Range(root[pad(r.state)][pad(r.district)])} \ {None}

LabelOf(r) ==
    IF ~HasFile(r) THEN "missing"
    ELSE IF iso_date(r.year, r.month, r.day) \in DatesOf(r) THEN "1" ELSE "0"

\* C20: process() labels every master row: 'missing' exactly when the district
\* file <state_code>/<district_code>.csv is absent, otherwise 1 when the row's
\* ISO date is in the date set of the file and 0 when it is not, a row without a
\* parseable date and a file without one included.
C20_ProcessLabels ==
    prog = "process" =>
        /\ pc # "crashed"
        /\ \A i \in DOMAIN auspi : auspi[i] = LabelOf(master[i])
        /\ pc = "done" => Len(auspi) = Len(master)

Returned == prog = "process" /\ pc \in {"done", "checked"}

\* C21: after process() the counters agree with the labels: as many rows are
\* labelled 'missing' as the missing-path counter sums to, every label is 0, 1
\* or 'missing', the rows are the ones, the zeros and the missing together,
\* hits <= total for every pair with hits the number of its rows labelled 1,
\* and sanity_check returns True.
C21_CountersAgree ==
    /\ Returned =>
          /\ Count(auspi, "missing") = sum_values(missing)
          /\ Range(auspi) \subseteq {"0", "1", "missing"}
          /\ Len(auspi) = Len(master)
          /\ Len(auspi) = Count(auspi, "1") + Count(auspi, "0") + Count(auspi, "missing")
          /\ DOMAIN hits = DOMAIN total
          /\ \A k \in DOMAIN total : hits[k] <= total[k]
          /\ sum_values(total) = Count(auspi, "1") + Count(auspi, "0")
          /\ sum_values(hits) = Count(auspi, "1")
    /\ (prog = "process" /\ pc = "checked") => fn.out = TRUE

\* two rows without a file at one path, checked
C21_witness ==
    /\ prog = "process" /\ pc = "checked" /\ fn.out = TRUE
    /\ \E k \in DOMAIN missing : missing[k] = 2

\* a row labelled 1 and a row labelled 0 of one file, checked
C21_witness_hits ==
    /\ prog = "process" /\ pc = "checked"
    /\ \E k \in DOMAIN total : total[k] = 2 /\ hits[k] = 1

NoDuplicates(rows) == \A i, j \in DOMAIN rows : Key(rows[i]) = Key(rows[j]) => i = j

\* C22: after any number of complete or interrupted runs of the resumable
\* scraper, the output CSV holds no two rows with the same (year, month, day).
C22_NoDuplicateRows == prog = "resumable" => NoDuplicates(csv_rows)

YearsIn(rows) == {rows[i].year : i \in DOMAIN rows}

\* a request of the resumable scraper has just been answered
Requested == prog = "resumable" /\ pc = "years" /\ resp' # resp

\* C29: fetch_year of the resumable scraper makes at most RETRIES requests for
\* a year; the first page of at least 2000 characters ends it and its records
\* are the year's rows; a failed attempt before the last is retried; when the
\* last attempt fails the year is reported as failed, no row is written for it
\* and the run goes on with the next year.
C29_FetchYearBounded ==
    /\ [](prog = "resumable" =>
             /\ attempt <= RETRIES
             /\ failed \cap YearsIn(csv_rows) = {}
             /\ \A y \in failed : y < yr)
    /\ [][Requested =>
             /\ attempt \in 1..RETRIES
             /\ resp'.year = yr
             /\ resp'.kind = "page" =>
                   /\ yr' = yr + 1 /\ failed' = failed
                   /\ Len(csv_rows') = Len(csv_rows) + Count([i \in DOMAIN resp'.cards |-> resp'.cards[i].is_muhurat], TRUE)
             /\ (resp'.kind # "page" /\ attempt < RETRIES) =>
                   yr' = yr /\ attempt' = attempt + 1 /\ csv_rows' = csv_rows /\ failed' = failed
             /\ (resp'.kind # "page" /\ attempt = RETRIES) =>
                   /\ yr' = yr + 1 /\ failed' = failed \cup {yr}
                   /\ csv_rows' = csv_rows /\ pc' = "years"]_vars

\* the first year failed on its third attempt and the next year's page gave rows
C29_witness ==
    /\ prog = "resumable" /\ failed = {NEW_START_YEAR} /\ yr = NEW_START_YEAR + 2
    /\ resp.kind = "page" /\ Len(csv_rows) = 2

\* a small page on the second attempt of a year
C29_witness_retry ==
    /\ prog = "resumable" /\ attempt = 3 /\ resp.kind = "small" /\ yr = NEW_START_YEAR

\* an HTTP request of the per-district scraper has just been answered
ScrapeRequested == prog = "scrape" /\ resp' # resp /\ resp'.kind # ""

\* C23: in the per-district scraper CONSECUTIVE_EMPTY never exceeds
\* MAX_CONSECUTIVE_EMPTY; when it has reached it the process exits with code 2
\* and issues no further request; within a run the counter goes back to 0 only
\* on an answer that holds data cards.
C23_BlockingDetection ==
    /\ [](prog = "scrape" =>
             /\ CONSECUTIVE_EMPTY <= MAX_CONSECUTIVE_EMPTY
             /\ (pc \in {"start", "years"}) => CONSECUTIVE_EMPTY < MAX_CONSECUTIVE_EMPTY
             /\ exit_code = "2" <=> (pc = "exited" /\ CONSECUTIVE_EMPTY = MAX_CONSECUTIVE_EMPTY /\ exit_code # "130"))
    /\ [][/\ ScrapeRequested => CONSECUTIVE_EMPTY < MAX_CONSECUTIVE_EMPTY
          /\ (prog = "scrape" /\ CONSECUTIVE_EMPTY = MAX_CONSECUTIVE_EMPTY /\ pc = "fetched"
                /\ exit_code' # "130") => (pc' = "exited" /\ exit_code' = "2")
          /\ (prog = "scrape" /\ runs' = runs /\ CONSECUTIVE_EMPTY # 0 /\ CONSECUTIVE_EMPTY' = 0)
                => (resp'.kind = "cards" /\ resp'.cards # <<>>)]_vars

\* the tenth suspicious answer in a row was a challenge page: main ends the process
C23_witness ==
    /\ prog = "scrape" /\ pc = "exited" /\ exit_code = "2"
    /\ CONSECUTIVE_EMPTY = MAX_CONSECUTIVE_EMPTY /\ resp.kind = "challenge"

\* the counter went back to 0 on a page with a card after nine suspicious answers
C23_witness_reset ==
    /\ prog = "scrape" /\ pc = "fetched" /\ CONSECUTIVE_EMPTY = 0
    /\ resp.kind = "cards" /\ yr = START_YEAR + 9 /\ csv_rows = <<>> /\ runs = 1

DatesIn(rows) == {DateOf(rows[i]) : i \in DOMAIN rows}

\* the rows that a step appends to the file
Appended == SubSeq(csv_rows', Len(csv_rows) + 1, Len(csv_rows'))

\* C30: when the district file holds rows, a run of the per-district scraper
\* starts at the year of the latest stored date, requests no other year that
\* is in the file, writes in the starting year only records whose (month, day)
\* is after the latest stored date, and writes no date that the file holds.
C30_ResumeWritesNothingAgain ==
    [][prog = "scrape" =>
          /\ (pc = "start" /\ csv_rows # <<>>) =>
                /\ last_date' \in DatesIn(csv_rows)
                /\ \A d \in DatesIn(csv_rows) : ~TupleGt(d, last_date')
                /\ yr' = last_date'[1]
          /\ (ScrapeRequested /\ HasLast) =>
                /\ resp'.year >= last_date[1]
                /\ resp'.year \in done_years => resp'.year = last_date[1]
          /\ Len(csv_rows') >= Len(csv_rows)
          /\ SubSeq(csv_rows', 1, Len(csv_rows)) = csv_rows
          /\ DatesIn(Appended) \cap DatesIn(csv_rows) = {}
          /\ HasLast =>
                \A d \in DatesIn(Appended) : d[1] = last_date[1] => TupleGt(d, last_date)]_vars

\* a second run found January 5 in the file, got a page with March 2 and
\* January 5 for that year, and wrote March 2 only
C30_witness ==
    /\ prog = "scrape" /\ runs = 2 /\ pc = "years" /\ yr = START_YEAR + 1
    /\ last_date = <<START_YEAR, 1, 5>> /\ Len(resp.cards) = 2
    /\ Len(csv_rows) = 2 /\ DateOf(csv_rows[1]) = <<START_YEAR, 1, 5>>
    /\ DateOf(csv_rows[2]) = <<START_YEAR, 3, 2>>

PairOf(r) == <<r.state_name, r.district_name>>

PairsOf(rows) == {PairOf(rows[i]) : i \in DOMAIN rows}

\* the rows of missing that no earlier row equals, in their order
FirstOf(rows) == {i \in DOMAIN rows : \A j \in 1..(i - 1) : PairOf(rows[j]) # PairOf(rows[i])}

Recovered == written["missing-districts-recovered.csv"]

\* C24: the recovery pass writes one row per distinct (state_name,
\* district_name) pair of the missing list, in the order of their first
\* occurrence and with the pair unchanged; a pair with no state or district
\* match has its row too, with an empty match and the score 0.
C24_OneRowPerInput ==
    /\ (prog = "recover" /\ pc = "rows") =>
          /\ Len(records) = idx - 1
          /\ Len(records) <= Cardinality(PairsOf(missing))
    /\ (prog = "recover" /\ pc = "done") =>
          /\ Len(Recovered) = Cardinality(PairsOf(missing))
          /\ PairsOf(Recovered) = PairsOf(missing)
          /\ \A i \in DOMAIN Recovered :
                /\ Cardinality({j \in FirstOf(missing) : j <= CHOOSE k \in FirstOf(missing) :
                                    PairOf(missing[k]) = PairOf(Recovered[i])}) = i
                /\ Recovered[i].matched_state = None => Recovered[i].state_score = 0
                /\ Recovered[i].matched_district = None =>
                      (Recovered[i].district_score = 0 /\ Recovered[i].geoname_id = None)
                /\ Recovered[i].matched_state # None => Recovered[i].state_score >= SCORE_CUTOFF
                /\ Recovered[i].matched_district # None => Recovered[i].district_score >= SCORE_CUTOFF

\* the missing list names one pair twice; its one row has no district match
C24_witness ==
    /\ prog = "recover" /\ pc = "done" /\ Len(missing) = 2 /\ Len(Recovered) = 1
    /\ Recovered[1].matched_district = None /\ Recovered[1].matched_state # None

\* two pairs, the second with neither a state nor a district match
C24_witness_unmatched ==
    /\ prog = "recover" /\ pc = "done" /\ Len(Recovered) = 2
    /\ Recovered[2].matched_state = None /\ Recovered[2].matched_district = None

MergeRun == prog = "pure" /\ fn.name = "merge_districts"

\* the rows a run added to the main file
AddedRows(existing, out) == SubSeq(out.rows, Len(existing) + 1, Len(out.rows))

MergeKeepsAndAdds(existing, recovery, out) ==
    /\ SubSeq(out.rows, 1, Len(existing)) = existing
    /\ \A i \in DOMAIN out.rows :
          i > Len(existing) =>
             /\ out.rows[i].geoname_id \notin {<<>>, <<"0">>, <<"0",".","0">>}
             /\ \E k \in DOMAIN recovery : out.rows[i] = new_row(recovery[k])
             /\ \A j \in 1..(i - 1) : KeyOfRow(out.rows[j]) # KeyOfRow(out.rows[i])
    /\ \A k \in DOMAIN recovery :
          new_row(recovery[k]).geoname_id \notin {<<>>, <<"0">>, <<"0",".","0">>}
             => \E i \in DOMAIN out.rows : KeyOfRow(out.rows[i]) = KeyOfRow(new_row(recovery[k]))
    /\ out.added_count + out.skipped_empty + out.skipped_duplicate = Len(recovery)
    /\ out.skipped_empty =
          Cardinality({k \in DOMAIN recovery :
                          strip(recovery[k].geoname_id) \in {<<>>, <<"0">>, <<"0",".","0">>}})
    /\ Len(out.rows) = Len(existing) + out.added_count

\* C25: merge_districts keeps the existing rows in their order, adds a
\* recovery row only when its geoname_id is not '', '0' or '0.0' and its key
\* (state, district, geoname_id) is not yet present, adds no key twice; added +
\* skipped_empty + skipped_duplicate is the number of recovery rows, the final
\* number of rows is the existing rows plus added; a second run adds nothing.
C25_MergeAddsOnce ==
    MergeRun =>
       /\ MergeKeepsAndAdds(fn.arg[1], fn.arg[2], fn.out)
       /\ merge_districts(fn.out.rows, fn.arg[2]).rows = fn.out.rows
       /\ merge_districts(fn.out.rows, fn.arg[2]).added_count = 0

\* two recovery rows with the same key after the strip: one is added, one is a
\* duplicate, beside an existing row that stays first
C25_witness ==
    /\ MergeRun /\ Len(fn.arg[1]) = 1 /\ Len(fn.arg[2]) = 2 /\ fn.arg[2][1] # fn.arg[2][2]
    /\ fn.out.added_count = 1 /\ fn.out.skipped_duplicate = 1 /\ Len(fn.out.rows) = 2

\* a row with no usable geoname_id is skipped and a row of the main file is a duplicate
C25_witness_skipped ==
    /\ MergeRun /\ fn.out.skipped_empty = 1 /\ fn.out.skipped_duplicate = 1 /\ fn.out.added_count = 0

DryRename == prog = "rename" /\ dry_run
DryFix    == prog = "fix" /\ ~apply

\* C26: a dry run leaves the directory tree as it was: rename_everything with
\* dry_run=True and fix() with apply=False rename, merge, append and delete
\* nothing.
C26_DryRunChangesNothing ==
    /\ DryRename => root = root0
    /\ DryFix => (root = root0 /\ ap = NoAppend /\ pc # "apply")

\* a dry run of rename_everything that reported the rename of a state folder
\* with files in it
C26_witness ==
    /\ DryRename /\ pc = "done"
    /\ \E i \in DOMAIN ops : ops[i].kind = "state" /\ DOMAIN root[ops[i].from] # {}

\* a dry run of fix() that planned an operation
C26_witness_fix == DryFix /\ pc = "done" /\ actions # <<>>

\* the code rename_everything finds for the file stem of a folder with state code sc
DistrictCodeOf(sc, stem) == DistrictGet(codes.district_map, <<sc, normalise(stem)>>)

\* a real run renames the file stem of the folder d, whatever the order of the
\* files: it has a code that is not its name, no file of the folder bears that
\* code and no other file of the folder resolves to it
SurelyRenamed(d, sc, stem) ==
    /\ ~Falsy(DistrictCodeOf(sc, stem))
    /\ DistrictCodeOf(sc, stem) # stem
    /\ DistrictCodeOf(sc, stem) \notin DOMAIN root0[d]
    /\ \A other \in DOMAIN root0[d] \ {stem} :
          DistrictCodeOf(sc, other) # DistrictCodeOf(sc, stem)

DryReportsFiles ==
    (DryRename /\ pc = "done") =>
        \A i \in DOMAIN ops :
            ops[i].kind = "state" =>
                \A stem \in DOMAIN root0[ops[i].from] :
                    SurelyRenamed(ops[i].from, ops[i].to, stem) =>
                        \E j \in DOMAIN ops :
                            ops[j] = Op("dist", ops[i].to, stem, DistrictCodeOf(ops[i].to, stem))

\* fix(): the planned list is what a run with --apply performs, each file
\* moved from its old path to its new one
FixPerformsPlanned ==
    (prog = "fix" /\ apply /\ pc = "done") =>
        \A i \in DOMAIN actions :
            ~Exists(root, actions[i].old) /\ Exists(root, actions[i].new)

\* C27: the operations a dry run reports are the operations a real run on the
\* same tree and code book performs, with the same kind and target: a district
\* file that a real run renames is reported by the dry run of rename_everything,
\* and the planned list of fix() is what --apply performs.
C27_DryRunShowsRealRun == DryReportsFiles /\ FixPerformsPlanned

AllFiles(tree) == UNION {{<<d, f>> : f \in DOMAIN tree[d]} : d \in DOMAIN tree}

ContentsOf(tree) == {tree[p[1]][p[2]] : p \in AllFiles(tree)}

ContentCount(tree, c) == Cardinality({p \in AllFiles(tree) : tree[p[1]][p[2]] = c})

\* the step moved the folder d, files and all, to the name t that no folder bore
FolderMoved(d, t) ==
    /\ t \notin DOMAIN root
    /\ DOMAIN root' = (DOMAIN root \ {d}) \cup {t}
    /\ root'[t] = root[d]
    /\ \A x \in DOMAIN root \ {d} : root'[x] = root[x]

\* the step moved the file f of the folder d to the name g that no file of d bore
FileMoved(d, f, g) ==
    /\ g \notin DOMAIN root[d]
    /\ DOMAIN root' = DOMAIN root
    /\ DOMAIN root'[d] = (DOMAIN root[d] \ {f}) \cup {g}
    /\ root'[d][g] = root[d][f]
    /\ \A h \in DOMAIN root[d] \ {f} : root'[d][h] = root[d][h]
    /\ \A x \in DOMAIN root \ {d} : root'[x] = root[x]

RealRenameDone == prog = "rename" /\ ~dry_run /\ pc = "done"

\* the folders that resolve to the code sc, and the files of the folder d that
\* resolve to the code dc
FoldersOf(sc) == {d \in DOMAIN root0 : resolved[d] = sc}
FilesOf(d, dc) == {f \in DOMAIN root0[d] : DistrictCodeOf(resolved[d], f) = dc /\ f # dc}

C28_witness_files ==
    /\ RealRenameDone
    /\ \E d \in DOMAIN root0 :
          \E f, g \in DOMAIN root0[d] :
             /\ f # g /\ DirRenamed(d) /\ FileRenamed(d, f) /\ ~FileRenamed(d, g)
             /\ ~Falsy(DistrictCodeOf(resolved[d], g))
             /\ DistrictCodeOf(resolved[d], f) = DistrictCodeOf(resolved[d], g)

====
